---- MODULE Spec2Model ----
(***************************************************************************)
(* Model of the BigQuery client bindings: the recursive schema codec of    *)
(* table.py, Table.row_from_mapping, the Dataset property bag of           *)
(* dataset.py and the partial update built by Client.update_dataset.       *)
(*                                                                         *)
(* Python values that may be None are tagged records ([t |-> "str", ...]), *)
(* dictionaries are functions from their keys, tuples and lists are        *)
(* sequences (tagged where the code can tell them apart).                  *)
(***************************************************************************)
EXTENDS Integers, Sequences, FiniteSets, TLC

VARIABLES table, dataset, requests, call

vars == <<table, dataset, requests, call>>

(***************************************************************************)
(* Python values.                                                          *)
(***************************************************************************)
None == [t |-> "NoneType"]

Str(s) == [t |-> "str", v |-> s]

PyInt(i) == [t |-> "int", v |-> i]

Tuple(s) == [t |-> "tuple", v |-> s]

List(s) == [t |-> "list", v |-> s]

\* dict.get(key, default)
Get(d, key, default) == IF key \in DOMAIN d THEN d[key] ELSE default

\* d[key] = value
Put(d, key, value) ==
    [k \in (DOMAIN d) \cup {key} |-> IF k = key THEN value ELSE d[k]]

\* d.pop(key, None) used for its effect on d
Remove(d, key) == [k \in (DOMAIN d) \ {key} |-> d[k]]

EmptyDict == [k \in {} |-> None]

(***************************************************************************)
(* schema.SchemaField: name, field_type, mode, description and the tuple   *)
(* of its children.                                                        *)
(***************************************************************************)
SchemaField(name, field_type, mode, description, fields) ==
    [name |-> name, field_type |-> field_type, mode |-> mode,
     description |-> description, fields |-> fields.v]

(***************************************************************************)
(* table._parse_schema_resource: `()` when info has no "fields" key, else  *)
(* the list of the SchemaFields parsed from info["fields"].                *)
(***************************************************************************)
RECURSIVE _parse_schema_resource(_)
\* a decoder that forgets the children of a field
_parse_schema_resource_flat(info) ==
    IF "fields" \notin DOMAIN info
    THEN Tuple(<<>>)
    ELSE List([i \in 1..Len(info.fields) |->
            LET r_field == info.fields[i]
            IN SchemaField(r_field.name, r_field.type,
                           Get(r_field, "mode", "NULLABLE"),
                           Get(r_field, "description", None), Tuple(<<>>))])

_parse_schema_resource(info) ==
    IF "fields" \notin DOMAIN info
    THEN Tuple(<<>>)
    ELSE List([i \in 1..Len(info.fields) |->
            LET r_field == info.fields[i]
                name == r_field.name
                field_type == r_field.type
                mode == Get(r_field, "mode", "NULLABLE")
                description == Get(r_field, "description", None)
                sub_fields == _parse_schema_resource(r_field)
            IN SchemaField(name, field_type, mode, description, sub_fields)])

(***************************************************************************)
(* table._build_schema_resource: one info per field; "description" when it *)
(* is not None, "fields" when the field's children are truthy.             *)
(***************************************************************************)
RECURSIVE _build_schema_resource(_)
\* an encoder that never emits the description
_build_schema_resource_no_description(fields) ==
    [i \in 1..Len(fields) |->
        LET field == fields[i]
            info0 == [name |-> field.name, type |-> field.field_type,
                      mode |-> field.mode]
        IN IF field.fields # <<>>
           THEN Put(info0, "fields", _build_schema_resource(field.fields))
           ELSE info0]

\* an encoder that emits "fields" for every field, children or not
_build_schema_resource_always_fields(fields) ==
    [i \in 1..Len(fields) |->
        LET field == fields[i]
            info0 == [name |-> field.name, type |-> field.field_type,
                      mode |-> field.mode]
            info1 == IF field.description # None
                     THEN Put(info0, "description", field.description)
                     ELSE info0
        IN Put(info1, "fields", _build_schema_resource(field.fields))]

_build_schema_resource(fields) ==
    [i \in 1..Len(fields) |->
        LET field == fields[i]
            info0 == [name |-> field.name, type |-> field.field_type,
                      mode |-> field.mode]
            info1 == IF field.description # None
                     THEN Put(info0, "description", field.description)
                     ELSE info0
        IN IF field.fields # <<>>
           THEN Put(info1, "fields", _build_schema_resource(field.fields))
           ELSE info1]

(***************************************************************************)
(* Strings the code takes apart are sequences of one-character strings.    *)
(***************************************************************************)
LowerCase == <<"a", "b", "c", "d", "e", "f", "g", "h", "i", "j", "k", "l", "m", "n", "o", "p", "q", "r", "s", "t", "u", "v", "w", "x", "y", "z">>

UpperCase == <<"A", "B", "C", "D", "E", "F", "G", "H", "I", "J", "K", "L", "M", "N", "O", "P", "Q", "R", "S", "T", "U", "V", "W", "X", "Y", "Z">>

IsLower(c) == \E i \in 1..Len(LowerCase) : LowerCase[i] = c

IsUpper(c) == \E i \in 1..Len(UpperCase) : UpperCase[i] = c

ToUpper(c) ==
    IF IsLower(c)
    THEN UpperCase[CHOOSE i \in 1..Len(LowerCase) : LowerCase[i] = c]
    ELSE c

ToLower(c) ==
    IF IsUpper(c)
    THEN LowerCase[CHOOSE i \in 1..Len(UpperCase) : UpperCase[i] = c]
    ELSE c

\* str.split('_')
RECURSIVE split(_)
split(s) ==
    IF \A i \in 1..Len(s) : s[i] # "_"
    THEN <<s>>
    ELSE LET i == CHOOSE k \in 1..Len(s) :
                      s[k] = "_" /\ \A j \in 1..(k - 1) : s[j] # "_"
         IN <<SubSeq(s, 1, i - 1)>> \o split(SubSeq(s, i + 1, Len(s)))

\* str.capitalize: the first character upper-cased, the rest lower-cased
capitalize(word) ==
    [i \in 1..Len(word) |-> IF i = 1 THEN ToUpper(word[i])
                            ELSE ToLower(word[i])]

\* ''.join(words)
RECURSIVE join(_)
join(words) == IF words = <<>> THEN <<>> ELSE Head(words) \o join(Tail(words))

\* map(str.capitalize, words)
map_capitalize(words) == [i \in 1..Len(words) |-> capitalize(words[i])]

\* the attribute names and wire keys the model uses
n_friendly_name ==
    <<"f", "r", "i", "e", "n", "d", "l", "y", "_", "n", "a", "m", "e">>

n_default_table_expiration_ms ==
    <<"d", "e", "f", "a", "u", "l", "t", "_", "t", "a", "b", "l", "e",
      "_", "e", "x", "p", "i", "r", "a", "t", "i", "o", "n", "_", "m",
      "s">>

n_description == <<"d", "e", "s", "c", "r", "i", "p", "t", "i", "o", "n">>

n_location == <<"l", "o", "c", "a", "t", "i", "o", "n">>

n_etag == <<"e", "t", "a", "g">>

n_dataset_id == <<"d", "a", "t", "a", "s", "e", "t", "_", "i", "d">>

n_project == <<"p", "r", "o", "j", "e", "c", "t">>

n_self_link == <<"s", "e", "l", "f", "_", "l", "i", "n", "k">>

n_full_dataset_id ==
    <<"f", "u", "l", "l", "_", "d", "a", "t", "a", "s", "e", "t", "_",
      "i", "d">>

n_access_entries ==
    <<"a", "c", "c", "e", "s", "s", "_", "e", "n", "t", "r", "i", "e",
      "s">>

n_bogus == <<"b", "o", "g", "u", "s">>

n_expires == <<"e", "x", "p", "i", "r", "e", "s">>

n_schema == <<"s", "c", "h", "e", "m", "a">>

n_view_query == <<"v", "i", "e", "w", "_", "q", "u", "e", "r", "y">>

n_view_use_legacy_sql ==
    <<"v", "i", "e", "w", "_", "u", "s", "e", "_", "l", "e", "g", "a",
      "c", "y", "_", "s", "q", "l">>

n_partitioning_type ==
    <<"p", "a", "r", "t", "i", "t", "i", "o", "n", "i", "n", "g", "_",
      "t", "y", "p", "e">>

n_table_id == <<"t", "a", "b", "l", "e", "_", "i", "d">>

n_full_table_id ==
    <<"f", "u", "l", "l", "_", "t", "a", "b", "l", "e", "_", "i", "d">>

n_table_type == <<"t", "a", "b", "l", "e", "_", "t", "y", "p", "e">>

n_path == <<"p", "a", "t", "h">>

n_created == <<"c", "r", "e", "a", "t", "e", "d">>

n_modified == <<"m", "o", "d", "i", "f", "i", "e", "d">>

n_num_bytes == <<"n", "u", "m", "_", "b", "y", "t", "e", "s">>

n_num_rows == <<"n", "u", "m", "_", "r", "o", "w", "s">>

n_partition_expiration ==
    <<"p", "a", "r", "t", "i", "t", "i", "o", "n", "_", "e", "x", "p",
      "i", "r", "a", "t", "i", "o", "n">>

n_table == <<"t", "a", "b", "l", "e">>

n_from_api_repr ==
    <<"f", "r", "o", "m", "_", "a", "p", "i", "_", "r", "e", "p", "r">>

n__parse_access_entries ==
    <<"_", "p", "a", "r", "s", "e", "_", "a", "c", "c", "e", "s", "s",
      "_", "e", "n", "t", "r", "i", "e", "s">>

n__set_properties ==
    <<"_", "s", "e", "t", "_", "p", "r", "o", "p", "e", "r", "t", "i",
      "e", "s">>

n__build_access_resource ==
    <<"_", "b", "u", "i", "l", "d", "_", "a", "c", "c", "e", "s", "s",
      "_", "r", "e", "s", "o", "u", "r", "c", "e">>

n__build_resource ==
    <<"_", "b", "u", "i", "l", "d", "_", "r", "e", "s", "o", "u", "r",
      "c", "e">>

n__project == <<"_", "p", "r", "o", "j", "e", "c", "t">>

n__dataset_id == <<"_", "d", "a", "t", "a", "s", "e", "t", "_", "i", "d">>

n__table_id == <<"_", "t", "a", "b", "l", "e", "_", "i", "d">>

n__properties == <<"_", "p", "r", "o", "p", "e", "r", "t", "i", "e", "s">>

n__access_entries ==
    <<"_", "a", "c", "c", "e", "s", "s", "_", "e", "n", "t", "r", "i",
      "e", "s">>

n__schema == <<"_", "s", "c", "h", "e", "m", "a">>

n__client == <<"_", "c", "l", "i", "e", "n", "t">>

n_list_partitions ==
    <<"l", "i", "s", "t", "_", "p", "a", "r", "t", "i", "t", "i", "o",
      "n", "s">>

n__require_client ==
    <<"_", "r", "e", "q", "u", "i", "r", "e", "_", "c", "l", "i", "e",
      "n", "t">>

n__populate_expires_resource ==
    <<"_", "p", "o", "p", "u", "l", "a", "t", "e", "_", "e", "x", "p",
      "i", "r", "e", "s", "_", "r", "e", "s", "o", "u", "r", "c", "e">>

n__populate_partitioning_type_resource ==
    <<"_", "p", "o", "p", "u", "l", "a", "t", "e", "_", "p", "a", "r",
      "t", "i", "t", "i", "o", "n", "i", "n", "g", "_", "t", "y", "p",
      "e", "_", "r", "e", "s", "o", "u", "r", "c", "e">>

n__populate_view_use_legacy_sql_resource ==
    <<"_", "p", "o", "p", "u", "l", "a", "t", "e", "_", "v", "i", "e",
      "w", "_", "u", "s", "e", "_", "l", "e", "g", "a", "c", "y", "_",
      "s", "q", "l", "_", "r", "e", "s", "o", "u", "r", "c", "e">>

n__populate_view_query_resource ==
    <<"_", "p", "o", "p", "u", "l", "a", "t", "e", "_", "v", "i", "e",
      "w", "_", "q", "u", "e", "r", "y", "_", "r", "e", "s", "o", "u",
      "r", "c", "e">>

n__populate_schema_resource ==
    <<"_", "p", "o", "p", "u", "l", "a", "t", "e", "_", "s", "c", "h",
      "e", "m", "a", "_", "r", "e", "s", "o", "u", "r", "c", "e">>

n_row_from_mapping ==
    <<"r", "o", "w", "_", "f", "r", "o", "m", "_", "m", "a", "p", "p",
      "i", "n", "g">>

n_insert_data == <<"i", "n", "s", "e", "r", "t", "_", "d", "a", "t", "a">>

n_all_fields == <<"a", "l", "l", "_", "f", "i", "e", "l", "d", "s">>

n_custom_resource_fields ==
    <<"c", "u", "s", "t", "o", "m", "_", "r", "e", "s", "o", "u", "r",
      "c", "e", "_", "f", "i", "e", "l", "d", "s">>

\* the resource keys written in the code, as the characters of a key
k_tableReference ==
    <<"t", "a", "b", "l", "e", "R", "e", "f", "e", "r", "e", "n", "c",
      "e">>

k_expirationTime ==
    <<"e", "x", "p", "i", "r", "a", "t", "i", "o", "n", "T", "i", "m",
      "e">>

k_timePartitioning ==
    <<"t", "i", "m", "e", "P", "a", "r", "t", "i", "t", "i", "o", "n",
      "i", "n", "g">>

k_view == <<"v", "i", "e", "w">>

k_schema == <<"s", "c", "h", "e", "m", "a">>

(***************************************************************************)
(* Table: the schema setter and _set_properties.  A Table is the record of *)
(* its _schema tuple and its _properties dictionary.                       *)
(***************************************************************************)
NewTable ==
    [project |-> "p", dataset_id |-> "d", table_id |-> "t",
     schema |-> <<>>, properties |-> EmptyDict]

IsSchemaField(x) == "field_type" \in DOMAIN x

\* Table.schema setter: the new _schema, or "ValueError"
Table_schema_setter(value) ==
    IF value = None
    THEN [raised |-> "", schema |-> <<>>]
    ELSE IF ~ \A i \in 1..Len(value.v) : IsSchemaField(value.v[i])
    THEN [raised |-> "ValueError"]
    ELSE [raised |-> "", schema |-> value.v]

\* a string of decimal digits, as the service sends 64-bit numbers
NumStr(digits) == [t |-> "str", digits |-> digits]

RECURSIVE DigitsValue(_)
DigitsValue(digits) ==
    IF digits = <<>> THEN 0
    ELSE 10 * DigitsValue(SubSeq(digits, 1, Len(digits) - 1))
         + digits[Len(digits)]

\* float(x) of a digit string or of an int
PyFloat(x) ==
    IF "digits" \in DOMAIN x
    THEN [t |-> "float", v |-> DigitsValue(x.digits)]
    ELSE [t |-> "float", v |-> x.v]

\* cleaned[key] = conv(cleaned[key]) when key is in cleaned
FloatKey(cleaned, key) ==
    IF key \in DOMAIN cleaned
    THEN Put(cleaned, key, PyFloat(cleaned[key]))
    ELSE cleaned

\* _set_properties that would update the properties held instead of
\* replacing them
Table_set_properties_merge(tbl, api_response) ==
    LET schema == Get(api_response, "schema", [fields |-> <<>>])
        cleaned == Remove(api_response, "schema")
        set == Table_schema_setter(_parse_schema_resource(schema))
        c1 == FloatKey(cleaned, "creationTime")
        c2 == FloatKey(c1, "lastModifiedTime")
        c3 == FloatKey(c2, "expirationTime")
    IN [tbl EXCEPT !.schema = set.schema, !.properties = c3 @@ @]

\* Table._set_properties: the schema and the properties are rebuilt from the
\* response alone
Table_set_properties(tbl, api_response) ==
    LET schema == Get(api_response, "schema", [fields |-> <<>>])
        cleaned == Remove(api_response, "schema")
        set == Table_schema_setter(_parse_schema_resource(schema))
        c1 == FloatKey(cleaned, "creationTime")
        c2 == FloatKey(c1, "lastModifiedTime")
        c3 == FloatKey(c2, "expirationTime")
    IN [tbl EXCEPT !.schema = set.schema, !.properties = c3]

\* Table.friendly_name setter: a value that is neither a string nor None
\* raises, any other is stored
Table_friendly_name_setter(tbl, value) ==
    IF value.t # "str" /\ value # None
    THEN [raised |-> "ValueError", table |-> tbl]
    ELSE [raised |-> "",
          table |-> [tbl EXCEPT !.properties = Put(@, "friendlyName", value)]]

\* a dictionary held as a value
Dict(d) == [t |-> "dict", v |-> d]

\* google.cloud._helpers: a datetime counted in microseconds
_datetime_from_microseconds(value) == [t |-> "datetime", micros |-> value]

_millis_from_datetime(value) ==
    IF value = None THEN None ELSE PyInt(value.micros \div 1000)

Table_expires(tbl) ==
    LET expiration_time == Get(tbl.properties, "expirationTime", None)
    IN IF expiration_time # None
       THEN _datetime_from_microseconds(1000 * expiration_time.v)
       ELSE None

Table_view_query(tbl) ==
    LET view == Get(tbl.properties, "view", None)
    IN IF view # None THEN Get(view.v, "query", None) ELSE None

Table_view_use_legacy_sql(tbl) ==
    LET view == Get(tbl.properties, "view", None)
    IN IF view # None THEN Get(view.v, "useLegacySql", None) ELSE None

\* the _populate_*_resource functions: the resource with the field added,
\* or the exception raised
Populated(resource) == [raised |-> "", resource |-> resource]

Table_populate_expires_resource(tbl, resource) ==
    Populated(Put(resource, k_expirationTime,
                  _millis_from_datetime(Table_expires(tbl))))

Table_populate_partitioning_type_resource(tbl, resource) ==
    Populated(Put(resource, k_timePartitioning,
                  Get(tbl.properties, "timePartitioning", None)))

Table_populate_view_use_legacy_sql_resource(tbl, resource) ==
    LET r1 == IF k_view \notin DOMAIN resource
              THEN Put(resource, k_view, Dict(EmptyDict))
              ELSE resource
    IN IF r1[k_view] = None
       THEN [raised |-> "TypeError"]
       ELSE Populated(Put(r1, k_view,
                Dict(Put(r1[k_view].v, "useLegacySql",
                         Table_view_use_legacy_sql(tbl)))))

Table_populate_view_query_resource(tbl, resource) ==
    IF Table_view_query(tbl) = None
    THEN Populated(Put(resource, k_view, None))
    ELSE LET r1 == IF k_view \notin DOMAIN resource
                   THEN Put(resource, k_view, Dict(EmptyDict))
                   ELSE resource
         IN IF r1[k_view] = None
            THEN [raised |-> "TypeError"]
            ELSE Populated(Put(r1, k_view,
                     Dict(Put(r1[k_view].v, "query", Table_view_query(tbl)))))

Table_populate_schema_resource(tbl, resource) ==
    IF tbl.schema = <<>>
    THEN Populated(Put(resource, k_schema, None))
    ELSE Populated(Put(resource, k_schema,
             Dict([fields |-> _build_schema_resource(tbl.schema)])))

custom_resource_fields ==
    {n_expires, n_partitioning_type, n_view_query, n_view_use_legacy_sql,
     n_schema}

Table_custom_resource_field(tbl, f, resource) ==
    CASE f = n_expires -> Table_populate_expires_resource(tbl, resource)
      [] f = n_partitioning_type ->
             Table_populate_partitioning_type_resource(tbl, resource)
      [] f = n_view_query -> Table_populate_view_query_resource(tbl, resource)
      [] f = n_view_use_legacy_sql ->
             Table_populate_view_use_legacy_sql_resource(tbl, resource)
      [] f = n_schema -> Table_populate_schema_resource(tbl, resource)

\* the names declared with @property in class Table
TableProperties ==
    {n_project, n_dataset_id, n_table_id, n_path, n_schema, n_created,
     n_etag, n_modified, n_num_bytes, n_num_rows, n_self_link,
     n_full_table_id, n_table_type, n_partitioning_type,
     n_partition_expiration, n_description, n_expires, n_friendly_name,
     n_location, n_view_query, n_view_use_legacy_sql}

\* the methods of class Table
TableMethods ==
    {n_list_partitions, n_from_api_repr, n__require_client,
     n__set_properties, n__populate_expires_resource,
     n__populate_partitioning_type_resource,
     n__populate_view_use_legacy_sql_resource,
     n__populate_view_query_resource, n__populate_schema_resource,
     n__build_resource, n_row_from_mapping, n_insert_data}

\* the class attributes and the attributes that Table.__init__ assigns
TableData ==
    {n_all_fields, n_custom_resource_fields, n__schema, n__project,
     n__table_id, n__dataset_id, n__properties, n__client}

\* every name getattr finds on a Table (those inherited from object are
\* left out)
TableAttrs == TableProperties \cup TableMethods \cup TableData

\* the int a getter makes of a property the service sends as digits
IntOrNone(x) == IF x = None THEN None ELSE PyInt(DigitsValue(x.digits))

\* the datetime a getter makes of a property counted in milliseconds
DatetimeOrNone(x) ==
    IF x = None THEN None ELSE _datetime_from_microseconds(1000 * x.v)

\* getattr(table, f): a property getter, a bound method or a data attribute
Table_getattr(tbl, f) ==
    CASE f \in {n_project, n__project} -> Str(tbl.project)
      [] f \in {n_dataset_id, n__dataset_id} -> Str(tbl.dataset_id)
      [] f \in {n_table_id, n__table_id} -> Str(tbl.table_id)
      [] f = n_path -> [t |-> "str",
                        path |-> <<"projects", tbl.project,
                                   "datasets", tbl.dataset_id,
                                   "tables", tbl.table_id>>]
      [] f \in {n_schema, n__schema} -> Tuple(tbl.schema)
      [] f = n_created ->
             DatetimeOrNone(Get(tbl.properties, "creationTime", None))
      [] f = n_etag -> Get(tbl.properties, "etag", None)
      [] f = n_modified ->
             DatetimeOrNone(Get(tbl.properties, "lastModifiedTime", None))
      [] f = n_num_bytes -> IntOrNone(Get(tbl.properties, "numBytes", None))
      [] f = n_num_rows -> IntOrNone(Get(tbl.properties, "numRows", None))
      [] f = n_self_link -> Get(tbl.properties, "selfLink", None)
      [] f = n_full_table_id -> Get(tbl.properties, "id", None)
      [] f = n_table_type -> Get(tbl.properties, "type", None)
      [] f = n_partitioning_type ->
             Get(Get(tbl.properties, "timePartitioning", Dict(EmptyDict)).v,
                 "type", None)
      [] f = n_partition_expiration ->
             Get(Get(tbl.properties, "timePartitioning", Dict(EmptyDict)).v,
                 "expirationMs", None)
      [] f = n_description -> Get(tbl.properties, "description", None)
      [] f = n_expires -> Table_expires(tbl)
      [] f = n_friendly_name -> Get(tbl.properties, "friendlyName", None)
      [] f = n_location -> Get(tbl.properties, "location", None)
      [] f = n_view_query -> Table_view_query(tbl)
      [] f = n_view_use_legacy_sql -> Table_view_use_legacy_sql(tbl)
      [] f \in TableMethods -> [t |-> "instancemethod", name |-> f]
      [] f = n_all_fields ->
             List(<<n_description, n_friendly_name, n_expires, n_location,
                    n_partitioning_type, n_view_use_legacy_sql,
                    n_view_query, n_schema>>)
      [] f = n_custom_resource_fields ->
             [t |-> "dict", keys |-> custom_resource_fields]
      [] f = n__properties -> Dict(tbl.properties)
      [] f = n__client -> None

\* snake case to camel case
Table_api_field(f) ==
    LET words == split(f)
    IN words[1] \o join(map_capitalize(Tail(words)))

\* the loop of Table._build_resource over filter_fields from its index i
\* on: the resource, or the exception raised
RECURSIVE BuildResourceFrom(_, _, _, _)
BuildResourceFrom(tbl, filter_fields, i, resource) ==
    IF i > Len(filter_fields)
    THEN [raised |-> "", resource |-> resource]
    ELSE LET f == filter_fields[i]
         IN IF f \in custom_resource_fields
            THEN LET done == Table_custom_resource_field(tbl, f, resource)
                 IN IF done.raised # ""
                    THEN [raised |-> done.raised]
                    ELSE BuildResourceFrom(tbl, filter_fields, i + 1,
                                           done.resource)
            ELSE IF f \notin TableAttrs
            THEN [raised |-> "AttributeError"]
            ELSE BuildResourceFrom(tbl, filter_fields, i + 1,
                     Put(resource, Table_api_field(f), Table_getattr(tbl, f)))

Table_build_resource(tbl, filter_fields) ==
    BuildResourceFrom(tbl, filter_fields, 1,
        k_tableReference :> [projectId |-> tbl.project,
                             datasetId |-> tbl.dataset_id,
                             tableId |-> tbl.table_id])

\* the loop of Table.row_from_mapping over the schema from its index i
\* on: the row, or the exception raised
RECURSIVE RowFrom(_, _, _, _)
RowFrom_nullable_first(schema, mapping, i, row) ==
    IF i > Len(schema)
    THEN [raised |-> "", row |-> Tuple(row)]
    ELSE LET field == schema[i]
         IN IF field.mode = "NULLABLE"
            THEN RowFrom(schema, mapping, i + 1,
                         <<Get(mapping, field.name, None)>> \o row)
            ELSE IF field.mode = "REQUIRED"
            THEN IF field.name \notin DOMAIN mapping
                 THEN [raised |-> "KeyError"]
                 ELSE RowFrom(schema, mapping, i + 1,
                              Append(row, mapping[field.name]))
            ELSE IF field.mode = "REPEATED"
            THEN RowFrom(schema, mapping, i + 1,
                         Append(row, Get(mapping, field.name, Tuple(<<>>))))
            ELSE [raised |-> "ValueError"]

RowFrom_default_nullable(schema, mapping, i, row) ==
    IF i > Len(schema)
    THEN [raised |-> "", row |-> Tuple(row)]
    ELSE LET field == schema[i]
         IN IF field.mode = "REQUIRED"
            THEN IF field.name \notin DOMAIN mapping
                 THEN [raised |-> "KeyError"]
                 ELSE RowFrom(schema, mapping, i + 1,
                              Append(row, mapping[field.name]))
            ELSE IF field.mode = "REPEATED"
            THEN RowFrom(schema, mapping, i + 1,
                         Append(row, Get(mapping, field.name, Tuple(<<>>))))
            ELSE RowFrom(schema, mapping, i + 1,
                         Append(row, Get(mapping, field.name, None)))

RowFrom(schema, mapping, i, row) ==
    IF i > Len(schema)
    THEN [raised |-> "", row |-> Tuple(row)]
    ELSE LET field == schema[i]
         IN IF field.mode = "REQUIRED"
            THEN IF field.name \notin DOMAIN mapping
                 THEN [raised |-> "KeyError"]
                 ELSE RowFrom(schema, mapping, i + 1,
                              Append(row, mapping[field.name]))
            ELSE IF field.mode = "REPEATED"
            THEN RowFrom(schema, mapping, i + 1,
                         Append(row, Get(mapping, field.name, Tuple(<<>>))))
            ELSE IF field.mode = "NULLABLE"
            THEN RowFrom(schema, mapping, i + 1,
                         Append(row, Get(mapping, field.name, None)))
            ELSE [raised |-> "ValueError"]

Table_row_from_mapping_unchecked(tbl, mapping) ==
    RowFrom(tbl.schema, mapping, 1, <<>>)

Table_row_from_mapping(tbl, mapping) ==
    IF Len(tbl.schema) = 0
    THEN [raised |-> "ValueError"]
    ELSE RowFrom(tbl.schema, mapping, 1, <<>>)

(***************************************************************************)
(* dataset.py: AccessEntry, and a Dataset as the record of its _dataset_id,*)
(* _project, _properties and _access_entries.                              *)
(***************************************************************************)
ENTITY_TYPES == {"userByEmail", "groupByEmail", "domain", "specialGroup", "view"}

\* AccessEntry.__init__ that would accept a role for a view
AccessEntry_view_with_role(role, entity_type, entity_id) ==
    IF entity_type \notin ENTITY_TYPES
    THEN [raised |-> "ValueError"]
    ELSE IF entity_type # "view" /\ role = None
    THEN [raised |-> "ValueError"]
    ELSE [raised |-> "",
          entry |-> [role |-> role, entity_type |-> entity_type,
                     entity_id |-> entity_id]]

\* AccessEntry.__init__: the entry, or the ValueError it raises
AccessEntry(role, entity_type, entity_id) ==
    IF entity_type \notin ENTITY_TYPES
    THEN [raised |-> "ValueError"]
    ELSE IF entity_type = "view" /\ role # None
    THEN [raised |-> "ValueError"]
    ELSE IF entity_type # "view" /\ role = None
    THEN [raised |-> "ValueError"]
    ELSE [raised |-> "",
          entry |-> [role |-> role, entity_type |-> entity_type,
                     entity_id |-> entity_id]]

NewDataset(dataset_id, project) ==
    [dataset_id |-> dataset_id, project |-> project,
     properties |-> EmptyDict, access_entries |-> <<>>]

IsAccessEntry(x) == "entity_type" \in DOMAIN x

\* Dataset.access_entries setter
Dataset_access_entries_setter(ds, value) ==
    IF ~ \A i \in 1..Len(value.v) : IsAccessEntry(value.v[i])
    THEN [raised |-> "ValueError", dataset |-> ds]
    ELSE [raised |-> "", dataset |-> [ds EXCEPT !.access_entries = value.v]]

\* a setter that would store the value before it tests its type
PropertySetter_store_first(ds, key, types, value) ==
    [raised |-> IF value.t \notin types /\ value # None
                THEN "ValueError" ELSE "",
     dataset |-> [ds EXCEPT !.properties = Put(@, key, value)]]

\* the setters of default_table_expiration_ms, description, friendly_name
\* and location: a value of the wrong type raises, any other is stored
PropertySetter(ds, key, types, value) ==
    IF value.t \notin types /\ value # None
    THEN [raised |-> "ValueError", dataset |-> ds]
    ELSE [raised |-> "",
          dataset |-> [ds EXCEPT !.properties = Put(@, key, value)]]

\* six.integer_types: a bool is an int
Dataset_default_table_expiration_ms_setter(ds, value) ==
    PropertySetter(ds, "defaultTableExpirationMs", {"int", "bool"}, value)

Dataset_description_setter(ds, value) ==
    PropertySetter(ds, "description", {"str"}, value)

Dataset_friendly_name_setter(ds, value) ==
    PropertySetter(ds, "friendlyName", {"str"}, value)

Dataset_location_setter(ds, value) ==
    PropertySetter(ds, "location", {"str"}, value)

\* int(x) of a digit string or of an int
PyIntOf(x) ==
    IF "digits" \in DOMAIN x THEN PyInt(DigitsValue(x.digits)) ELSE PyInt(x.v)

\* Dataset._parse_access_entries: the entries of `access` from its index i
\* on, or the error raised on the first entry that does not parse
RECURSIVE ParseAccessFrom(_, _)
ParseAccessFrom(access, i) ==
    IF i > Len(access)
    THEN [raised |-> "", result |-> <<>>]
    ELSE LET role == Get(access[i], "role", None)
             entry == Remove(access[i], "role")
         IN IF DOMAIN entry = {}
            THEN [raised |-> "KeyError"]
            ELSE IF Cardinality(DOMAIN entry) # 1
            THEN [raised |-> "ValueError"]
            ELSE LET entity_type == CHOOSE k \in DOMAIN entry : TRUE
                     made == AccessEntry(role, entity_type, entry[entity_type])
                     rest == ParseAccessFrom(access, i + 1)
                 IN IF made.raised # ""
                    THEN [raised |-> made.raised]
                    ELSE IF rest.raised # ""
                    THEN rest
                    ELSE [raised |-> "",
                          result |-> <<made.entry>> \o rest.result]

\* _parse_access_entries that would return the entries last first
Dataset_parse_access_entries_reversed(access) ==
    ParseAccessFrom([i \in 1..Len(access) |-> access[Len(access) + 1 - i]], 1)

Dataset_parse_access_entries(access) == ParseAccessFrom(access, 1)

\* Dataset._set_properties: the properties are cleared first, then the
\* access entries are parsed and set, then the cleaned response is stored
Dataset_set_properties(ds, api_response) ==
    LET cleared == [ds EXCEPT !.properties = EmptyDict]
        access == Get(api_response, "access", <<>>)
        cleaned == Remove(api_response, "access")
        parsed == Dataset_parse_access_entries(access)
        c1 == FloatKey(cleaned, "creationTime")
        c2 == FloatKey(c1, "lastModifiedTime")
        c3 == IF "defaultTableExpirationMs" \in DOMAIN c2
              THEN Put(c2, "defaultTableExpirationMs",
                       PyIntOf(c2["defaultTableExpirationMs"]))
              ELSE c2
    IN IF parsed.raised # ""
       THEN [raised |-> parsed.raised, dataset |-> cleared]
       ELSE [raised |-> "",
             dataset |-> [Dataset_access_entries_setter(
                              cleared, List(parsed.result)).dataset
                          EXCEPT !.properties = c3]]

\* Dataset(dataset_id, client=client): the project is the one of the client
Dataset_init(dataset_id, client) == NewDataset(dataset_id, client.project)

\* Dataset.from_api_repr called with the positional arguments args after
\* cls: the parameters are (resource, client), none has a default
Dataset_from_api_repr(args) ==
    IF Len(args) # 2 THEN [raised |-> "TypeError"]
    ELSE LET resource == args[1]
             client == args[2]
         IN IF \/ "datasetReference" \notin DOMAIN resource
               \/ "datasetId" \notin DOMAIN resource.datasetReference
            THEN [raised |-> "KeyError"]
            ELSE LET ds == Dataset_init(
                               resource.datasetReference.datasetId, client)
                     done == Dataset_set_properties(ds, resource)
                 IN IF done.raised # "" THEN [raised |-> done.raised]
                    ELSE [raised |-> "", result |-> done.dataset]

\* the names declared with @property in class Dataset
DatasetProperties ==
    {n_project, n_path, n_access_entries, n_created, n_dataset_id,
     n_full_dataset_id, n_etag, n_modified, n_self_link,
     n_default_table_expiration_ms, n_description, n_friendly_name,
     n_location}

\* the methods of class Dataset
DatasetMethods ==
    {n_from_api_repr, n__parse_access_entries, n__set_properties,
     n__build_access_resource, n__build_resource, n_table}

\* the attributes that Dataset.__init__ and the setters assign
DatasetData == {n__project, n__dataset_id, n__properties, n__access_entries}

\* every name hasattr finds on a Dataset (those inherited from object are
\* left out)
DatasetAttrs == DatasetProperties \cup DatasetMethods \cup DatasetData

Dataset_hasattr(ds, f) == f \in DatasetAttrs

\* getattr(dataset, f): a property getter, a bound method or a data
\* attribute
Dataset_getattr(ds, f) ==
    CASE f \in {n_project, n__project} -> Str(ds.project)
      [] f = n_path -> [t |-> "str",
                        path |-> <<"projects", ds.project,
                                   "datasets", ds.dataset_id>>]
      [] f \in {n_access_entries, n__access_entries} ->
             List(ds.access_entries)
      [] f = n_created ->
             DatetimeOrNone(Get(ds.properties, "creationTime", None))
      [] f \in {n_dataset_id, n__dataset_id} -> Str(ds.dataset_id)
      [] f = n_full_dataset_id -> Get(ds.properties, "id", None)
      [] f = n_etag -> Get(ds.properties, "etag", None)
      [] f = n_modified ->
             DatetimeOrNone(Get(ds.properties, "lastModifiedTime", None))
      [] f = n_self_link -> Get(ds.properties, "selfLink", None)
      [] f = n_default_table_expiration_ms ->
             Get(ds.properties, "defaultTableExpirationMs", None)
      [] f = n_description -> Get(ds.properties, "description", None)
      [] f = n_friendly_name -> Get(ds.properties, "friendlyName", None)
      [] f = n_location -> Get(ds.properties, "location", None)
      [] f \in DatasetMethods -> [t |-> "instancemethod", name |-> f]
      [] f = n__properties -> Dict(ds.properties)

(***************************************************************************)
(* table.py: Table.insert_data.  The converters of                         *)
(* google.cloud.bigquery._helpers._SCALAR_VALUE_TO_JSON_ROW are not part   *)
(* of these sources: binary data is base64-encoded, integers pass through, *)
(* and string-like types have no converter.                                *)
(***************************************************************************)
\* a byte string, as the sequence of its bytes
Bytes(s) == [t |-> "bytes", v |-> s]

\* a str, as the sequence of its characters
Chars(s) == [t |-> "str", chars |-> s]

B64Alphabet ==
    <<"A", "B", "C", "D", "E", "F", "G", "H", "I", "J", "K", "L", "M",
      "N", "O", "P", "Q", "R", "S", "T", "U", "V", "W", "X", "Y", "Z",
      "a", "b", "c", "d", "e", "f", "g", "h", "i", "j", "k", "l", "m",
      "n", "o", "p", "q", "r", "s", "t", "u", "v", "w", "x", "y", "z",
      "0", "1", "2", "3", "4", "5", "6", "7", "8", "9", "+", "/">>

\* base64.b64encode of a sequence of bytes
RECURSIVE b64encode(_)
b64encode(s) ==
    IF Len(s) = 0 THEN <<>>
    ELSE IF Len(s) = 1
    THEN <<B64Alphabet[(s[1] \div 4) + 1],
           B64Alphabet[(s[1] % 4) * 16 + 1], "=", "=">>
    ELSE IF Len(s) = 2
    THEN <<B64Alphabet[(s[1] \div 4) + 1],
           B64Alphabet[(s[1] % 4) * 16 + (s[2] \div 16) + 1],
           B64Alphabet[(s[2] % 16) * 4 + 1], "=">>
    ELSE <<B64Alphabet[(s[1] \div 4) + 1],
           B64Alphabet[(s[1] % 4) * 16 + (s[2] \div 16) + 1],
           B64Alphabet[(s[2] % 16) * 4 + (s[3] \div 64) + 1],
           B64Alphabet[(s[3] % 64) + 1]>>
         \o b64encode(SubSeq(s, 4, Len(s)))

\* the converter of BYTES: a byte string becomes its base64 text
_bytes_to_json(value) ==
    IF value.t = "bytes" THEN Chars(b64encode(value.v)) ELSE value

\* the converter of INTEGER
_int_to_json(value) == value

\* the types _SCALAR_VALUE_TO_JSON_ROW has a converter for
ConvertedTypes == {"INTEGER", "BYTES"}

\* the value of a field as it goes into the row's JSON object
RowValue_unconverted(field, value) == value

RowValue(field, value) ==
    IF field.field_type \notin ConvertedTypes THEN value
    ELSE IF field.field_type = "BYTES" THEN _bytes_to_json(value)
    ELSE _int_to_json(value)

Min(a, b) == IF a < b THEN a ELSE b

\* the loop over zip(self._schema, row) from its index i on
RECURSIVE RowInfoFrom(_, _, _, _)
RowInfoFrom(schema, row, i, row_info) ==
    IF i > Min(Len(schema), Len(row))
    THEN row_info
    ELSE RowInfoFrom(schema, row, i + 1,
             Put(row_info, schema[i].name, RowValue(schema[i], row[i])))

\* the loop over enumerate(rows) from its index i on: rows_info, or the
\* IndexError of row_ids[index]
RECURSIVE RowsInfoFrom(_, _, _, _, _)
RowsInfoFrom_always_id(schema, rows, row_ids, i, rows_info) ==
    IF i > Len(rows)
    THEN [raised |-> "", rows_info |-> rows_info]
    ELSE LET json == [json |-> RowInfoFrom(schema, rows[i], 1, EmptyDict)]
         IN IF row_ids # None /\ i > Len(row_ids.v)
            THEN [raised |-> "IndexError"]
            ELSE RowsInfoFrom(schema, rows, row_ids, i + 1,
                     Append(rows_info,
                            Put(json, "insertId",
                                IF row_ids # None THEN row_ids.v[i]
                                ELSE None)))

RowsInfoFrom(schema, rows, row_ids, i, rows_info) ==
    IF i > Len(rows)
    THEN [raised |-> "", rows_info |-> rows_info]
    ELSE LET json == [json |-> RowInfoFrom(schema, rows[i], 1, EmptyDict)]
         IN IF row_ids = None
            THEN RowsInfoFrom(schema, rows, row_ids, i + 1,
                              Append(rows_info, json))
            ELSE IF i > Len(row_ids.v)
            THEN [raised |-> "IndexError"]
            ELSE RowsInfoFrom(schema, rows, row_ids, i + 1,
                     Append(rows_info, Put(json, "insertId", row_ids.v[i])))

\* data[key] = value if value is not None
PutIfNotNone(data, key, value) ==
    IF value # None THEN Put(data, key, value) ELSE data

\* the errors the service reports, as insert_data returns them
InsertErrors(response) ==
    LET errors == Get(response, "insertErrors", <<>>)
    IN [i \in 1..Len(errors) |->
           [index |-> PyIntOf(errors[i].index), errors |-> errors[i].errors]]

\* a reply of the service that is an error
ServiceError == [t |-> "ServiceError"]

\* a bool
PyBool(b) == [t |-> "bool", v |-> b]

\* Table.insert_data with the service's reply to the POST (ServiceError or
\* the response as a Dict): the calls of api_request made, and the errors returned or the
\* exception raised.  `client` is None or a client; the Table itself is
\* bound to no client.
Table_insert_data(tbl, rows, row_ids, skip_invalid_rows, ignore_unknown_values, template_suffix, client, reply) ==
    IF Len(tbl.schema) = 0
    THEN [raised |-> "ValueError", requests |-> <<>>]
    ELSE LET built == RowsInfoFrom(tbl.schema, rows, row_ids, 1, <<>>)
             d0 == [rows |-> built.rows_info]
             d1 == PutIfNotNone(d0, "skipInvalidRows", skip_invalid_rows)
             d2 == PutIfNotNone(d1, "ignoreUnknownValues",
                                ignore_unknown_values)
             d3 == PutIfNotNone(d2, "templateSuffix", template_suffix)
             request == [method |-> "POST",
                         path |-> <<"projects", tbl.project,
                                    "datasets", tbl.dataset_id,
                                    "tables", tbl.table_id, "insertAll">>,
                         data |-> d3]
         IN IF built.raised # ""
            THEN [raised |-> built.raised, requests |-> <<>>]
            ELSE IF client = None
            THEN [raised |-> "AttributeError", requests |-> <<>>]
            ELSE IF reply = ServiceError
            THEN [raised |-> "ServiceError", requests |-> <<request>>]
            ELSE [raised |-> "", requests |-> <<request>>,
                  errors |-> InsertErrors(reply.v)]

(***************************************************************************)
(* client.py: Client.update_dataset.                                       *)
(***************************************************************************)
Client_api_field_title(f) == join(map_capitalize(split(f)))

\* snake case to camel case
Client_api_field(f) ==
    LET words == split(f)
    IN words[1] \o join(map_capitalize(Tail(words)))

RECURSIVE UpdatePartial_skip_none(_, _, _, _)
UpdatePartial_skip_none(ds, fields, i, partial) ==
    IF i > Len(fields)
    THEN [raised |-> "", partial |-> partial]
    ELSE IF ~ Dataset_hasattr(ds, fields[i])
    THEN [raised |-> "ValueError"]
    ELSE UpdatePartial_skip_none(ds, fields, i + 1,
             IF Dataset_getattr(ds, fields[i]) = None THEN partial
             ELSE Put(partial, Client_api_field(fields[i]),
                      Dataset_getattr(ds, fields[i])))

\* the loop over `fields` from its index i on: the partial body, or the
\* ValueError raised on the first name the dataset has no attribute for
RECURSIVE UpdatePartial(_, _, _, _)
UpdatePartial(ds, fields, i, partial) ==
    IF i > Len(fields)
    THEN [raised |-> "", partial |-> partial]
    ELSE IF ~ Dataset_hasattr(ds, fields[i])
    THEN [raised |-> "ValueError"]
    ELSE UpdatePartial(ds, fields, i + 1,
                       Put(partial, Client_api_field(fields[i]),
                           Dataset_getattr(ds, fields[i])))

\* Client.update_dataset with the service's reply to the PATCH ("ok" or
\* "error"): the calls of api_request made and the exception raised.  A
\* reply that is not an error is handed to Dataset.from_api_repr as its
\* only argument.
Client_update_dataset_always_if_match(ds, fields, reply) ==
    LET path == <<"projects", ds.project, "datasets", ds.dataset_id>>
        built == UpdatePartial(ds, fields, 1, EmptyDict)
        request == [method |-> "PATCH", path |-> path,
                    data |-> built.partial,
                    headers |-> [If_Match |-> Dataset_getattr(ds, n_etag)]]
    IN IF built.raised # ""
       THEN [raised |-> built.raised, requests |-> <<>>]
       ELSE IF reply = "error"
       THEN [raised |-> "ServiceError", requests |-> <<request>>]
       ELSE [raised |-> Dataset_from_api_repr(<<reply>>).raised,
             requests |-> <<request>>]

Client_update_dataset(ds, fields, reply) ==
    LET path == <<"projects", ds.project, "datasets", ds.dataset_id>>
        built == UpdatePartial(ds, fields, 1, EmptyDict)
        headers == IF Dataset_getattr(ds, n_etag) # None
                   THEN [If_Match |-> Dataset_getattr(ds, n_etag)]
                   ELSE None
        request == [method |-> "PATCH", path |-> path,
                    data |-> built.partial, headers |-> headers]
    IN IF built.raised # ""
       THEN [raised |-> built.raised, requests |-> <<>>]
       ELSE IF reply = "error"
       THEN [raised |-> "ServiceError", requests |-> <<request>>]
       ELSE [raised |-> Dataset_from_api_repr(<<reply>>).raised,
             requests |-> <<request>>]

(***************************************************************************)
(* Schema resources the codec is run on: a top-level list whose RECORD     *)
(* fields nest two levels deep, with every optional key present or absent. *)
(***************************************************************************)
MaxLen == 2

SeqsUpTo(S, n) == UNION {[1..k -> S] : k \in 0..n}

\* the key absent, or present with one of vals
Opt(key, vals) == {EmptyDict} \cup {key :> v : v \in vals}

LeafInfos ==
    {[name |-> "c", type |-> "STRING"] @@ m @@ d :
        m \in Opt("mode", {"REQUIRED"}),
        d \in Opt("description", {Str("d")})}

MidInfos ==
    LeafInfos \cup
    {[name |-> "b", type |-> "RECORD"] @@ m @@ f :
        m \in Opt("mode", {"REPEATED"}),
        f \in Opt("fields", SeqsUpTo(LeafInfos, MaxLen))}

TopInfos ==
    LeafInfos \cup
    {[name |-> "a", type |-> "RECORD"] @@ m @@ f :
        m \in Opt("mode", {"NULLABLE"}),
        f \in Opt("fields", {<<>>} \cup {<<x>> : x \in MidInfos})}

SchemaInfos ==
    {EmptyDict, [fields |-> <<>>]}
    \cup {[fields |-> <<x>>] : x \in TopInfos}
    \cup {[fields |-> <<x, y>>] : x \in TopInfos, y \in LeafInfos}

\* table resources as the service returns them
TableResponses ==
    {s @@ e @@ c :
        s \in Opt("schema", {EmptyDict, [fields |-> <<>>],
                             [fields |-> <<[name |-> "c", type |-> "STRING"]>>],
                             [fields |-> <<[name |-> "a", type |-> "RECORD"]>>],
                             [fields |-> <<[name |-> "a", type |-> "RECORD",
                                            fields |-> <<>>]>>]}),
        e \in Opt("etag", {Str("abc")}),
        c \in Opt("creationTime", {NumStr(<<1, 2>>)})}

(***************************************************************************)
(* State: the Table and the Dataset held by the caller, the HTTP requests  *)
(* sent by the call in progress, and that call with its arguments and its  *)
(* outcome ("idle" between two calls).                                     *)
(***************************************************************************)
Init ==
    /\ table = NewTable
    /\ dataset = NewDataset("d", "p")
    /\ requests = <<>>
    /\ call = [op |-> "idle"]

Idle == call.op = "idle"

\* the call returns to the caller
Return ==
    /\ ~ Idle
    /\ call' = [op |-> "idle"]
    /\ requests' = <<>>
    /\ UNCHANGED <<table, dataset>>

(***************************************************************************)
(* SpecSchema: schema resources are decoded and encoded again, and a Table *)
(* is refreshed from table resources.                                      *)
(***************************************************************************)
ParseSchemaResource ==
    /\ Idle
    /\ \E info \in SchemaInfos :
          call' = [op |-> "_parse_schema_resource", info |-> info,
                   result |-> _parse_schema_resource(info)]
    /\ UNCHANGED <<table, dataset, requests>>

\* the decoded schema encoded again
BuildSchemaResource ==
    /\ call.op = "_parse_schema_resource"
    /\ call' = [op |-> "_build_schema_resource", info |-> call.info,
                fields |-> call.result.v,
                result |-> _build_schema_resource(call.result.v)]
    /\ UNCHANGED <<table, dataset, requests>>

\* a refresh, also right after another one; the call keeps the Table as it
\* was before
TableSetProperties ==
    /\ Idle \/ call.op = "Table._set_properties"
    /\ \E api_response \in TableResponses :
          /\ table' = Table_set_properties(table, api_response)
          /\ call' = [op |-> "Table._set_properties",
                      api_response |-> api_response, before |-> table]
    /\ UNCHANGED <<dataset, requests>>

MaxFields == 2

FilterNames ==
    {n_friendly_name, n_description, n_expires, n_view_query, n_schema,
     n__project, n_bogus}

\* Table._build_resource on a list of field names
TableBuildResource ==
    /\ Idle
    /\ \E filter_fields \in SeqsUpTo(FilterNames, MaxFields) :
          call' = [op |-> "Table._build_resource",
                   filter_fields |-> filter_fields,
                   result |-> Table_build_resource(table, filter_fields)]
    /\ UNCHANGED <<table, dataset, requests>>

NextSchema ==
    \/ ParseSchemaResource
    \/ BuildSchemaResource
    \/ TableSetProperties
    \/ TableBuildResource
    \/ Return

SpecSchema == Init /\ [][NextSchema]_vars

(***************************************************************************)
(* SpecDataset: a Dataset is refreshed from dataset resources, modified    *)
(* through its setters and sent with Client.update_dataset; resources are  *)
(* built from a Table with Table._build_resource.                          *)
(***************************************************************************)
FieldNames ==
    {n_friendly_name, n_default_table_expiration_ms, n_description, n_etag,
     n__project, n_bogus}

MaxNameLen == 4

\* names made of words, with empty words and capitals
Names == SeqsUpTo({"a", "B", "_"}, MaxNameLen)

DatasetReference ==
    [datasetReference |-> [projectId |-> "p", datasetId |-> "d"]]

DatasetResponses ==
    {DatasetReference @@ e @@ n : e \in Opt("etag", {Str("abc")}),
                                  n \in Opt("friendlyName", {Str("y")})}
    \cup {DatasetReference @@ x @@ a :
            x \in Opt("defaultTableExpirationMs", {NumStr(<<5, 0>>)}),
            a \in Opt("access", {<<[role |-> Str("OWNER"),
                                    userByEmail |-> Str("u")]>>,
                                 <<[role |-> Str("OWNER"),
                                    view |-> Str("v")]>>})}

DatasetSetProperties ==
    /\ Idle
    /\ \E api_response \in DatasetResponses :
        \E done \in {Dataset_set_properties(dataset, api_response)} :
           /\ dataset' = done.dataset
           /\ call' = [op |-> "Dataset._set_properties",
                       api_response |-> api_response, before |-> dataset,
                       raised |-> done.raised]
    /\ UNCHANGED <<table, requests>>

SetFriendlyName ==
    /\ Idle
    /\ \E value \in {None, Str("x"), PyInt(7)} :
        \E done \in {Dataset_friendly_name_setter(dataset, value)} :
           /\ dataset' = done.dataset
           /\ call' = [op |-> "Dataset.friendly_name", value |-> value,
                       raised |-> done.raised]
    /\ UNCHANGED <<table, requests>>

SetDescription ==
    /\ Idle
    /\ \E value \in {None, Str("x"), PyInt(7)} :
        \E done \in {Dataset_description_setter(dataset, value)} :
           /\ dataset' = done.dataset
           /\ call' = [op |-> "Dataset.description", value |-> value,
                       raised |-> done.raised]
    /\ UNCHANGED <<table, requests>>

SetDefaultTableExpirationMs ==
    /\ Idle
    /\ \E value \in {None, PyInt(5000), Str("x")} :
        \E done \in {Dataset_default_table_expiration_ms_setter(
                         dataset, value)} :
           /\ dataset' = done.dataset
           /\ call' = [op |-> "Dataset.default_table_expiration_ms",
                       value |-> value, raised |-> done.raised]
    /\ UNCHANGED <<table, requests>>

\* Client.update_dataset, the service answering the PATCH or failing it
UpdateDataset ==
    /\ Idle
    /\ \E fields \in SeqsUpTo(FieldNames, MaxFields),
          reply \in {"ok", "error"} :
        \E done \in {Client_update_dataset(dataset, fields, reply)} :
           /\ requests' = done.requests
           /\ call' = [op |-> "Client.update_dataset", fields |-> fields,
                       reply |-> reply, raised |-> done.raised]
    /\ UNCHANGED <<table, dataset>>

\* the snake case to camel case lines of both modules, on any name
TranslateFieldName ==
    /\ Idle
    /\ \E f \in Names :
          call' = [op |-> "api_field", f |-> f,
                   client |-> Client_api_field(f),
                   table |-> Table_api_field(f)]
    /\ UNCHANGED <<table, dataset, requests>>

NextDataset ==
    \/ DatasetSetProperties
    \/ SetFriendlyName
    \/ SetDescription
    \/ SetDefaultTableExpirationMs
    \/ UpdateDataset
    \/ TableBuildResource
    \/ TranslateFieldName
    \/ Return

SpecDataset == Init /\ [][NextDataset]_vars

(***************************************************************************)
(* SpecRows: the caller sets the schema of a Table and converts mappings   *)
(* to rows with Table.row_from_mapping.                                    *)
(***************************************************************************)
MaxSchemaLen == 3

\* fields the caller builds, one of them with a mode the service has not
Fields ==
    {SchemaField(f[1], "INTEGER", f[2], None, Tuple(<<>>)) :
        f \in {<<"a", "REQUIRED">>, <<"a", "NULLABLE">>, <<"b", "REPEATED">>,
               <<"c", "NULLABLE">>, <<"c", "BOGUS">>}}

Schemas ==
    {None, List(<<Str("x")>>)}
    \cup {List(schema) : schema \in SeqsUpTo(Fields, MaxSchemaLen)}

\* mappings with and without the names of the fields, and with a key that
\* names no field
Mappings ==
    UNION {[keys -> {PyInt(1), None}] : keys \in SUBSET {"a", "b", "c", "z"}}

\* table.schema = value
SetSchema ==
    /\ Idle
    /\ \E value \in Schemas :
        \E done \in {Table_schema_setter(value)} :
           /\ table' = IF done.raised = ""
                       THEN [table EXCEPT !.schema = done.schema]
                       ELSE table
           /\ call' = [op |-> "Table.schema", value |-> value,
                       raised |-> done.raised]
    /\ UNCHANGED <<dataset, requests>>

RowFromMapping ==
    /\ Idle
    /\ \E mapping \in Mappings :
          call' = [op |-> "Table.row_from_mapping", mapping |-> mapping,
                   result |-> Table_row_from_mapping(table, mapping)]
    /\ UNCHANGED <<table, dataset, requests>>

NextRows ==
    \/ SetSchema
    \/ RowFromMapping
    \/ Return

SpecRows == Init /\ [][NextRows]_vars

(***************************************************************************)
(* SpecInsert: the caller sets the schema of a Table bound to no client,   *)
(* sends rows with Table.insert_data and converts mappings to rows.        *)
(***************************************************************************)
MaxRows == 2

\* schemas with a field of each kind of type: converted (INTEGER, BYTES)
\* and string-like
TypedSchemas ==
    LET a == SchemaField("a", "INTEGER", "REQUIRED", None, Tuple(<<>>))
        b == SchemaField("b", "BYTES", "NULLABLE", None, Tuple(<<>>))
        s == SchemaField("s", "STRING", "NULLABLE", None, Tuple(<<>>))
    IN {None, List(<<s>>), List(<<s, b>>), List(<<a, b>>),
        List(<<s, a, b>>)}

\* rows of every arity from none to three values
RowsGiven ==
    {<<>>, <<Str("s")>>, <<Str("s"), Bytes(<<113>>)>>,
     <<PyInt(1), Bytes(<<104, 105>>)>>,
     <<Str("s"), PyInt(1), Bytes(<<113>>)>>}

RowId(i) == [t |-> "str", id |-> i]

\* no row_ids, or the ids of the first rows
RowIds == {None} \cup {List([i \in 1..k |-> RowId(i)]) : k \in 0..MaxRows}

InsertReplies ==
    {ServiceError, Dict(EmptyDict),
     Dict([insertErrors |->
              <<[index |-> PyInt(0), errors |-> <<"invalid">>]>>])}

\* table.schema = value, with typed fields
SetTypedSchema ==
    /\ Idle
    /\ \E value \in TypedSchemas :
        \E done \in {Table_schema_setter(value)} :
           /\ table' = [table EXCEPT !.schema = done.schema]
           /\ call' = [op |-> "Table.schema", value |-> value,
                       raised |-> done.raised]
    /\ UNCHANGED <<dataset, requests>>

InsertData ==
    /\ Idle
    /\ \E rows \in SeqsUpTo(RowsGiven, MaxRows), row_ids \in RowIds,
          skip_invalid_rows \in {None, PyBool(TRUE)},
          ignore_unknown_values \in {None, PyBool(FALSE)},
          template_suffix \in {None, Str("x")},
          client \in {None, [t |-> "Client"]},
          reply \in InsertReplies :
        \E done \in {Table_insert_data(table, rows, row_ids,
                         skip_invalid_rows, ignore_unknown_values,
                         template_suffix, client, reply)} :
           /\ requests' = done.requests
           /\ call' = [op |-> "Table.insert_data", rows |-> rows,
                       row_ids |-> row_ids,
                       skip_invalid_rows |-> skip_invalid_rows,
                       ignore_unknown_values |-> ignore_unknown_values,
                       template_suffix |-> template_suffix,
                       client |-> client, reply |-> reply, result |-> done]
    /\ UNCHANGED <<table, dataset>>

NextInsert ==
    \/ SetTypedSchema
    \/ InsertData
    \/ RowFromMapping
    \/ Return

SpecInsert == Init /\ [][NextInsert]_vars

(***************************************************************************)
(* SpecRefresh: a Dataset and a Table are modified locally and refreshed   *)
(* from the resources the service returns; access entries are built.       *)
(***************************************************************************)
\* AccessEntry(role, entity_type, entity_id)
NewAccessEntry ==
    /\ Idle
    /\ \E role \in {None, Str("OWNER"), Str("READER")},
          entity_type \in ENTITY_TYPES \cup {"bogus"},
          entity_id \in {Str("u"), Str("v")} :
          call' = [op |-> "AccessEntry", role |-> role,
                   entity_type |-> entity_type, entity_id |-> entity_id,
                   result |-> AccessEntry(role, entity_type, entity_id)]
    /\ UNCHANGED <<table, dataset, requests>>

\* dataset.access_entries = value
SetAccessEntries ==
    /\ Idle
    /\ \E value \in {List(<<>>), List(<<Str("x")>>),
                     List(<<AccessEntry(Str("READER"), "domain",
                                        Str("w")).entry>>)} :
        \E done \in {Dataset_access_entries_setter(dataset, value)} :
           /\ dataset' = done.dataset
           /\ call' = [op |-> "Dataset.access_entries", value |-> value,
                       raised |-> done.raised]
    /\ UNCHANGED <<table, requests>>

\* table.friendly_name = value
SetTableFriendlyName ==
    /\ Idle
    /\ \E value \in {None, Str("x"), PyInt(7)} :
        \E done \in {Table_friendly_name_setter(table, value)} :
           /\ table' = done.table
           /\ call' = [op |-> "Table.friendly_name", value |-> value,
                       raised |-> done.raised]
    /\ UNCHANGED <<dataset, requests>>

NextRefresh ==
    \/ DatasetSetProperties
    \/ SetFriendlyName
    \/ SetAccessEntries
    \/ NewAccessEntry
    \/ TableSetProperties
    \/ SetTableFriendlyName
    \/ Return

SpecRefresh == Init /\ [][NextRefresh]_vars

(***************************************************************************)
(* dataset.py: DatasetReference; table.py: TableReference.  An object is   *)
(* a record of its class, its identity (id) and its attributes.            *)
(***************************************************************************)
NotImplemented == [t |-> "NotImplementedType"]

\* DatasetReference(project, dataset_id), the new object having identity id
DatasetReference_init(id, project, dataset_id) ==
    [cls |-> "DatasetReference", id |-> id, _project |-> project,
     _dataset_id |-> dataset_id]

\* TableReference(dataset_ref, table_id), the new object having identity id
TableReference_init(id, dataset_ref, table_id) ==
    [cls |-> "TableReference", id |-> id, _project |-> dataset_ref._project,
     _dataset_id |-> dataset_ref._dataset_id, _table_id |-> table_id]

\* dataset_ref.table(table_id)
DatasetReference_table(id, self, table_id) ==
    TableReference_init(id, self, table_id)

TableReference_key(self) ==
    <<self._project, self._dataset_id, self._table_id>>

TableReference_eq(self, other) ==
    IF other.cls # "TableReference" THEN NotImplemented
    ELSE PyBool(TableReference_key(self) = TableReference_key(other))

\* hash(self._key()): the hash of a tuple is a function of its contents
TableReference_hash(self) == [tuple |-> TableReference_key(self)]

\* the __eq__ and __hash__ a class inherits from object when it defines
\* none: the object is equal to itself only, and hashed by its identity
object_eq(self, other) ==
    IF self.id = other.id THEN PyBool(TRUE) ELSE NotImplemented

object_hash(self) == [id |-> self.id]

\* type(self).__eq__(self, other)
type_eq(self, other) ==
    IF self.cls = "TableReference" THEN TableReference_eq(self, other)
    ELSE object_eq(self, other)

\* a == b: the __eq__ of a, then the __eq__ of b when the first one returns
\* NotImplemented, then the comparison of the identities
PyEq(a, b) ==
    IF type_eq(a, b) # NotImplemented THEN type_eq(a, b).v
    ELSE IF type_eq(b, a) # NotImplemented THEN type_eq(b, a).v
    ELSE a.id = b.id

\* TableReference.__ne__
TableReference_ne(self, other) == ~ PyEq(self, other)

\* hash(a)
PyHash(a) ==
    IF a.cls = "TableReference" THEN TableReference_hash(a)
    ELSE object_hash(a)

\* to_api_repr that would exchange the dataset and the table
TableReference_to_api_repr_swapped(self) ==
    [projectId |-> self._project, datasetId |-> self._table_id,
     tableId |-> self._dataset_id]

TableReference_to_api_repr(self) ==
    [projectId |-> self._project, datasetId |-> self._dataset_id,
     tableId |-> self._table_id]

\* TableReference.from_api_repr(resource), the new object having identity id
TableReference_from_api_repr(id, resource) ==
    IF {"projectId", "datasetId", "tableId"} \ DOMAIN resource # {}
    THEN [raised |-> "KeyError"]
    ELSE [raised |-> "",
          result |-> TableReference_init(
                         id,
                         DatasetReference_init(id + 1, resource.projectId,
                                               resource.datasetId),
                         resource.tableId)]

(***************************************************************************)
(* SpecReferences: references are built, compared, hashed, and converted   *)
(* to and from their wire form.                                            *)
(***************************************************************************)
Projects == {"p", "q"}
DatasetIds == {"d", "e"}
TableIds == {"t", "u"}

\* the dataset references, the object having identity id
DatasetReferences(id) ==
    {DatasetReference_init(id, p, d) : p \in Projects, d \in DatasetIds}

\* the table references, the object having identity id
TableReferences(id) ==
    {TableReference_init(id, ds, t) : ds \in DatasetReferences(id + 1),
                                      t \in TableIds}

\* the wire forms: the three keys, one of them missing, one more key
TableReferenceResources ==
    LET full == [projectId : Projects, datasetId : DatasetIds,
                 tableId : TableIds]
    IN full
       \cup {Remove(j, k) : j \in full, k \in {"projectId", "datasetId",
                                               "tableId"}}
       \cup {Put(j, "kind", "x") : j \in full}

\* a == b, a != b, hash(a) and hash(b) of two references, b being another
\* object than a or a itself
CompareReferences ==
    /\ Idle
    /\ \E a \in DatasetReferences(1) \cup TableReferences(1) :
        \E b \in DatasetReferences(3) \cup TableReferences(3) \cup {a} :
           call' = [op |-> "==", a |-> a, b |-> b, eq |-> PyEq(a, b),
                    ne |-> IF a.cls = "TableReference"
                           THEN TableReference_ne(a, b) ELSE ~ PyEq(a, b),
                    hash_a |-> PyHash(a), hash_b |-> PyHash(b)]
    /\ UNCHANGED <<table, dataset, requests>>

\* dataset_ref.table(table_id)
DatasetReferenceTable ==
    /\ Idle
    /\ \E self \in DatasetReferences(1), table_id \in TableIds :
          call' = [op |-> "DatasetReference.table", self |-> self,
                   table_id |-> table_id,
                   result |-> DatasetReference_table(2, self, table_id)]
    /\ UNCHANGED <<table, dataset, requests>>

\* ref.to_api_repr()
TableReferenceToApiRepr ==
    /\ Idle
    /\ \E self \in TableReferences(1) :
          call' = [op |-> "TableReference.to_api_repr", self |-> self,
                   result |-> TableReference_to_api_repr(self)]
    /\ UNCHANGED <<table, dataset, requests>>

\* TableReference.from_api_repr(resource)
TableReferenceFromApiRepr ==
    /\ Idle
    /\ \E resource \in TableReferenceResources :
          call' = [op |-> "TableReference.from_api_repr",
                   resource |-> resource]
                  @@ TableReference_from_api_repr(3, resource)
    /\ UNCHANGED <<table, dataset, requests>>

NextReferences ==
    \/ CompareReferences
    \/ DatasetReferenceTable
    \/ TableReferenceToApiRepr
    \/ TableReferenceFromApiRepr
    \/ Return

SpecReferences == Init /\ [][NextReferences]_vars

(***************************************************************************)
(* client.py: Client.get_dataset and Client.create_dataset, with           *)
(* Dataset._build_resource.                                                *)
(***************************************************************************)
\* DatasetReference.path
DatasetReference_path(self) ==
    <<"projects", self._project, "datasets", self._dataset_id>>

RECURSIVE AccessResourceFrom(_, _, _)
\* the loop of Dataset._build_access_resource from entry i on
AccessResourceFrom(entries, i, result) ==
    IF i > Len(entries) THEN result
    ELSE LET entry == entries[i]
             info == entry.entity_type :> entry.entity_id
         IN AccessResourceFrom(entries, i + 1,
                               Append(result,
                                      PutIfNotNone(info, "role", entry.role)))

Dataset_build_access_resource(ds) ==
    AccessResourceFrom(ds.access_entries, 1, <<>>)

Dataset_build_resource(ds) ==
    LET r0 == [datasetReference |-> [projectId |-> ds.project,
                                     datasetId |-> ds.dataset_id]]
        r1 == PutIfNotNone(r0, "defaultTableExpirationMs",
                           Dataset_getattr(ds, n_default_table_expiration_ms))
        r2 == PutIfNotNone(r1, "description",
                           Dataset_getattr(ds, n_description))
        r3 == PutIfNotNone(r2, "friendlyName",
                           Dataset_getattr(ds, n_friendly_name))
        r4 == PutIfNotNone(r3, "location", Dataset_getattr(ds, n_location))
    IN IF Len(ds.access_entries) > 0
       THEN Put(r4, "access", Dataset_build_access_resource(ds))
       ELSE r4

\* Client.get_dataset with the service's reply to the GET (ServiceError or
\* the response as a Dict): the calls of api_request made, and the Dataset
\* returned or the exception raised
Client_get_dataset(dataset_ref, reply) ==
    LET request == [method |-> "GET",
                    path |-> DatasetReference_path(dataset_ref)]
    IN IF reply = ServiceError
       THEN [raised |-> "ServiceError", requests |-> <<request>>]
       ELSE [requests |-> <<request>>] @@ Dataset_from_api_repr(<<reply.v>>)

\* Client.create_dataset with the service's reply to the POST
Client_create_dataset(ds, reply) ==
    LET request == [method |-> "POST",
                    path |-> <<"projects", ds.project, "datasets">>,
                    data |-> Dataset_build_resource(ds)]
    IN IF reply = ServiceError
       THEN [raised |-> "ServiceError", requests |-> <<request>>]
       ELSE [requests |-> <<request>>] @@ Dataset_from_api_repr(<<reply.v>>)

(***************************************************************************)
(* SpecClient: a Dataset is modified locally, refreshed, created, fetched  *)
(* and patched through the client, and parsed from a resource.             *)
(***************************************************************************)
TheClient == [t |-> "Client", project |-> "p"]

\* the resources of a dataset, and one without its reference
DatasetResources == DatasetResponses \cup {[etag |-> Str("abc")]}

DatasetReplies == {ServiceError} \cup {Dict(r) : r \in DatasetResources}

\* client.get_dataset(dataset_ref)
GetDataset ==
    /\ Idle
    /\ \E dataset_ref \in DatasetReferences(1), reply \in DatasetReplies :
        \E done \in {Client_get_dataset(dataset_ref, reply)} :
           /\ requests' = done.requests
           /\ call' = [op |-> "Client.get_dataset",
                       dataset_ref |-> dataset_ref, reply |-> reply,
                       done |-> done]
    /\ UNCHANGED <<table, dataset>>

\* client.create_dataset(dataset)
CreateDataset ==
    /\ Idle
    /\ \E reply \in DatasetReplies :
        \E done \in {Client_create_dataset(dataset, reply)} :
           /\ requests' = done.requests
           /\ call' = [op |-> "Client.create_dataset", reply |-> reply,
                       done |-> done]
    /\ UNCHANGED <<table, dataset>>

\* Dataset.from_api_repr(resource, client)
DatasetFromApiRepr ==
    /\ Idle
    /\ \E resource \in DatasetResources :
          call' = [op |-> "Dataset.from_api_repr", resource |-> resource,
                   done |-> Dataset_from_api_repr(<<resource, TheClient>>)]
    /\ UNCHANGED <<table, dataset, requests>>

NextClient ==
    \/ DatasetSetProperties
    \/ SetFriendlyName
    \/ SetAccessEntries
    \/ GetDataset
    \/ CreateDataset
    \/ UpdateDataset
    \/ DatasetFromApiRepr
    \/ Return

SpecClient == Init /\ [][NextClient]_vars

(***************************************************************************)
(* client.py: Client.create_table, with Table.from_api_repr.               *)
(***************************************************************************)
\* table._build_resource called with the positional arguments args after
\* self: the only parameter is filter_fields, which has no default
Table_build_resource_call(tbl, args) ==
    IF Len(args) # 1 THEN [raised |-> "TypeError"]
    ELSE Table_build_resource(tbl, args[1])

\* Table.from_api_repr(resource, client)
Table_from_api_repr(resource, client) ==
    IF \/ "tableReference" \notin DOMAIN resource
       \/ "tableId" \notin DOMAIN resource.tableReference
    THEN [raised |-> "KeyError"]
    ELSE IF {"projectId", "datasetId"} \ DOMAIN resource.tableReference # {}
    THEN [raised |-> "KeyError"]
    ELSE LET ref == resource.tableReference
             dataset_ref == DatasetReference_init(2, ref.projectId,
                                                  ref.datasetId)
             table_ref == DatasetReference_table(3, dataset_ref, ref.tableId)
             new == [NewTable EXCEPT !.project = table_ref._project,
                                     !.dataset_id = table_ref._dataset_id,
                                     !.table_id = table_ref._table_id]
         IN [raised |-> "", result |-> Table_set_properties(new, resource)]

\* Client.create_table with the service's reply to the POST (ServiceError
\* or the response as a Dict): the body is built first, then the request is
\* sent, then the response is parsed
Client_create_table(tbl, reply) ==
    LET data == Table_build_resource_call(tbl, <<>>)
    IN IF data.raised # ""
       THEN [raised |-> data.raised, requests |-> <<>>]
       ELSE LET request == [method |-> "POST",
                            path |-> <<"projects", tbl.project, "datasets",
                                       tbl.dataset_id, "tables">>,
                            data |-> data.resource]
            IN IF reply = ServiceError
               THEN [raised |-> "ServiceError", requests |-> <<request>>]
               ELSE [requests |-> <<request>>]
                    @@ Table_from_api_repr(reply.v, TheClient)

(***************************************************************************)
(* table.py: the setters of partitioning_type, partition_expiration,       *)
(* view_query and view_use_legacy_sql.                                     *)
(***************************************************************************)
Table_partitioning_type_setter(tbl, value) ==
    IF value \notin {Str("DAY"), None}
    THEN [raised |-> "ValueError", table |-> tbl]
    ELSE IF value = None
    THEN [raised |-> "",
          table |-> [tbl EXCEPT !.properties = Remove(@, "timePartitioning")]]
    ELSE LET time_part == Get(tbl.properties, "timePartitioning",
                              Dict(EmptyDict))
         IN [raised |-> "",
             table |-> [tbl EXCEPT !.properties =
                           Put(@, "timePartitioning",
                               Dict(Put(time_part.v, "type", value)))]]

Table_partition_expiration_setter(tbl, value) ==
    IF value.t # "int" /\ value # None
    THEN [raised |-> "ValueError", table |-> tbl]
    ELSE IF value = None
    THEN IF "timePartitioning" \notin DOMAIN tbl.properties
         THEN [raised |-> "", table |-> tbl]
         ELSE IF "expirationMs" \notin DOMAIN tbl.properties.timePartitioning.v
         THEN [raised |-> "KeyError", table |-> tbl]
         ELSE [raised |-> "",
               table |-> [tbl EXCEPT !.properties.timePartitioning =
                             Dict(Remove(@.v, "expirationMs"))]]
    ELSE IF "timePartitioning" \in DOMAIN tbl.properties
    THEN [raised |-> "",
          table |-> [tbl EXCEPT !.properties.timePartitioning =
                        Dict(Put(@.v, "expirationMs", value))]]
    ELSE [raised |-> "",
          table |-> [tbl EXCEPT !.properties =
                        Put(@, "timePartitioning",
                            Dict([type |-> Str("DAY"),
                                  expirationMs |-> value]))]]

\* self._properties['view'][key] = value, after an absent or None view was
\* replaced by {}
PutInView(tbl, key, value) ==
    LET view == IF Get(tbl.properties, "view", None) = None
                THEN Dict(EmptyDict)
                ELSE tbl.properties.view
    IN [tbl EXCEPT !.properties = Put(@, "view", Dict(Put(view.v, key, value)))]

Table_view_query_setter(tbl, value) ==
    IF value.t # "str"
    THEN [raised |-> "ValueError", table |-> tbl]
    ELSE [raised |-> "", table |-> PutInView(tbl, "query", value)]

Table_view_use_legacy_sql_setter(tbl, value) ==
    IF value.t # "bool"
    THEN [raised |-> "ValueError", table |-> tbl]
    ELSE [raised |-> "", table |-> PutInView(tbl, "useLegacySql", value)]

(***************************************************************************)
(* SpecTable: a Table is partitioned, made a view, refreshed, encoded as a *)
(* resource, created through the client and parsed from a resource.        *)
(***************************************************************************)
TableReferenceOf ==
    [tableReference |-> [projectId |-> "p", datasetId |-> "d",
                         tableId |-> "t"]]

\* the resources of a table, one without its reference and one whose
\* reference lacks the project
TableResources ==
    {TableReferenceOf @@ r : r \in TableResponses}
    \cup {[etag |-> Str("abc")],
          [tableReference |-> [datasetId |-> "d", tableId |-> "t"]]}

TableReplies == {ServiceError} \cup {Dict(r) : r \in TableResources}

\* the names given to Table._build_resource
TableFilterNames ==
    {n_friendly_name, n_partitioning_type, n_view_query,
     n_view_use_legacy_sql, n_schema, n_bogus}

\* table.partitioning_type = value
SetPartitioningType ==
    /\ Idle
    /\ \E value \in {None, Str("DAY"), Str("HOUR")} :
        \E done \in {Table_partitioning_type_setter(table, value)} :
           /\ table' = done.table
           /\ call' = [op |-> "Table.partitioning_type", value |-> value,
                       before |-> table, raised |-> done.raised]
    /\ UNCHANGED <<dataset, requests>>

\* table.partition_expiration = value
SetPartitionExpiration ==
    /\ Idle
    /\ \E value \in {None, PyInt(7), Str("x")} :
        \E done \in {Table_partition_expiration_setter(table, value)} :
           /\ table' = done.table
           /\ call' = [op |-> "Table.partition_expiration", value |-> value,
                       before |-> table, raised |-> done.raised]
    /\ UNCHANGED <<dataset, requests>>

\* table.view_query = value
SetViewQuery ==
    /\ Idle
    /\ \E value \in {None, Str("q")} :
        \E done \in {Table_view_query_setter(table, value)} :
           /\ table' = done.table
           /\ call' = [op |-> "Table.view_query", value |-> value,
                       before |-> table, raised |-> done.raised]
    /\ UNCHANGED <<dataset, requests>>

\* table.view_use_legacy_sql = value
SetViewUseLegacySql ==
    /\ Idle
    /\ \E value \in {None, PyBool(FALSE)} :
        \E done \in {Table_view_use_legacy_sql_setter(table, value)} :
           /\ table' = done.table
           /\ call' = [op |-> "Table.view_use_legacy_sql", value |-> value,
                       before |-> table, raised |-> done.raised]
    /\ UNCHANGED <<dataset, requests>>

\* table._build_resource(filter_fields)
BuildResource ==
    /\ Idle
    /\ \E filter_fields \in SeqsUpTo(TableFilterNames, MaxFields) :
          call' = [op |-> "Table._build_resource",
                   filter_fields |-> filter_fields,
                   result |-> Table_build_resource(table, filter_fields)]
    /\ UNCHANGED <<table, dataset, requests>>

\* client.create_table(table)
CreateTable ==
    /\ Idle
    /\ \E reply \in TableReplies :
        \E done \in {Client_create_table(table, reply)} :
           /\ requests' = done.requests
           /\ call' = [op |-> "Client.create_table", reply |-> reply,
                       done |-> done]
    /\ UNCHANGED <<table, dataset>>

\* Table.from_api_repr(resource, client)
TableFromApiRepr ==
    /\ Idle
    /\ \E resource \in TableResources :
          call' = [op |-> "Table.from_api_repr", resource |-> resource,
                   done |-> Table_from_api_repr(resource, TheClient)]
    /\ UNCHANGED <<table, dataset, requests>>

NextTable ==
    \/ SetPartitioningType
    \/ SetPartitionExpiration
    \/ SetViewQuery
    \/ SetViewUseLegacySql
    \/ SetTableFriendlyName
    \/ SetTypedSchema
    \/ BuildResource
    \/ CreateTable
    \/ TableFromApiRepr
    \/ Return

SpecTable == Init /\ [][NextTable]_vars

(***************************************************************************)
(* client.py: Client.job_from_resource.  The configuration of a job        *)
(* resource is held as the list of its keys, in the order of the JSON      *)
(* object; the job classes of google.cloud.bigquery.job are not part of    *)
(* these sources: from_api_repr of a class builds a job of that class from *)
(* the resource.                                                           *)
(***************************************************************************)
\* key in config
In(key, config) == \E i \in 1..Len(config) : config[i] = key

\* cls.from_api_repr(resource, client)
Job_from_api_repr(cls, resource, client) ==
    [raised |-> "", job |-> [cls |-> cls, resource |-> resource]]

\* the job of the first key of the object that names a kind
RECURSIVE JobOfFirstKey(_, _)
JobOfFirstKey(resource, i) ==
    LET config == resource.configuration
    IN IF i > Len(config) THEN [raised |-> "ValueError"]
       ELSE CASE config[i] = "load" ->
                     Job_from_api_repr("LoadJob", resource, TheClient)
              [] config[i] = "copy" ->
                     Job_from_api_repr("CopyJob", resource, TheClient)
              [] config[i] = "extract" ->
                     Job_from_api_repr("ExtractJob", resource, TheClient)
              [] config[i] = "query" ->
                     Job_from_api_repr("QueryJob", resource, TheClient)
              [] OTHER -> JobOfFirstKey(resource, i + 1)

\* job_from_resource that would follow the order of the keys of the object
Client_job_from_resource_first_key(resource) ==
    IF "configuration" \notin DOMAIN resource THEN [raised |-> "KeyError"]
    ELSE JobOfFirstKey(resource, 1)

\* job_from_resource that would take a copy for an extract
Client_job_from_resource_swapped(resource) ==
    IF "configuration" \notin DOMAIN resource THEN [raised |-> "KeyError"]
    ELSE LET config == resource.configuration
         IN IF In("load", config)
            THEN Job_from_api_repr("LoadJob", resource, TheClient)
            ELSE IF In("copy", config)
            THEN Job_from_api_repr("ExtractJob", resource, TheClient)
            ELSE IF In("extract", config)
            THEN Job_from_api_repr("CopyJob", resource, TheClient)
            ELSE IF In("query", config)
            THEN Job_from_api_repr("QueryJob", resource, TheClient)
            ELSE [raised |-> "ValueError"]

Client_job_from_resource(resource) ==
    IF "configuration" \notin DOMAIN resource THEN [raised |-> "KeyError"]
    ELSE LET config == resource.configuration
         IN IF In("load", config)
            THEN Job_from_api_repr("LoadJob", resource, TheClient)
            ELSE IF In("copy", config)
            THEN Job_from_api_repr("CopyJob", resource, TheClient)
            ELSE IF In("extract", config)
            THEN Job_from_api_repr("ExtractJob", resource, TheClient)
            ELSE IF In("query", config)
            THEN Job_from_api_repr("QueryJob", resource, TheClient)
            ELSE [raised |-> "ValueError"]

(***************************************************************************)
(* SpecJobs: jobs are built from resources.                                *)
(***************************************************************************)
ConfigurationKeys == {"load", "copy", "extract", "query", "dryRun"}

\* the lists of distinct keys
Configurations ==
    {config \in UNION {[1..n -> ConfigurationKeys] :
                          n \in 0..Cardinality(ConfigurationKeys)} :
        \A i, j \in 1..Len(config) : config[i] = config[j] => i = j}

\* the job resources, and one without a configuration
JobResources ==
    {[id |-> "j", configuration |-> config] : config \in Configurations}
    \cup {[id |-> "j"]}

\* client.job_from_resource(resource)
JobFromResource ==
    /\ Idle
    /\ \E resource \in JobResources :
          call' = [op |-> "Client.job_from_resource", resource |-> resource,
                   done |-> Client_job_from_resource(resource)]
    /\ UNCHANGED <<table, dataset, requests>>

NextJobs ==
    \/ JobFromResource
    \/ Return

SpecJobs == Init /\ [][NextJobs]_vars

(***************************************************************************)
(* external_config.ExternalConfig and its options.  The module is not part *)
(* of these sources; tests/unit/test_external_config.py shows what it      *)
(* does: the resource is kept, `schema` is exposed as SchemaFields and     *)
(* written back by the schema encoder, the options block is exposed as an  *)
(* object whose skip_leading_rows is an int and whose qualifier_encoded    *)
(* are bytes, both written back as text.                                   *)
(***************************************************************************)
\* the number a character of the base64 alphabet stands for
B64Value(c) == (CHOOSE i \in 1..Len(B64Alphabet) : B64Alphabet[i] = c) - 1

\* base64.standard_b64decode of a base64 text
RECURSIVE b64decode(_)
b64decode(s) ==
    IF Len(s) < 4 THEN <<>>
    ELSE LET b1 == B64Value(s[1]) * 4 + (B64Value(s[2]) \div 16)
         IN IF s[3] = "=" THEN <<b1>>
            ELSE LET b2 == (B64Value(s[2]) % 16) * 16
                           + (B64Value(s[3]) \div 4)
                 IN IF s[4] = "=" THEN <<b1, b2>>
                    ELSE <<b1, b2,
                           (B64Value(s[3]) % 4) * 64 + B64Value(s[4])>>
                         \o b64decode(SubSeq(s, 5, Len(s)))

\* the decimal digits of a natural number, as str(n) writes them
RECURSIVE DigitsOf(_)
DigitsOf(n) ==
    IF n < 10 THEN <<n>> ELSE Append(DigitsOf(n \div 10), n % 10)

\* a column of a Bigtable column family, parsed: qualifierEncoded as bytes
BigtableColumn_from_api_repr(resource) ==
    IF "qualifierEncoded" \in DOMAIN resource
    THEN Put(resource, "qualifierEncoded",
             Bytes(b64decode(resource.qualifierEncoded.chars)))
    ELSE resource

\* a column written back: qualifierEncoded as base64 text
BigtableColumn_to_api_repr(column) ==
    IF "qualifierEncoded" \in DOMAIN column
    THEN Put(column, "qualifierEncoded",
             Chars(b64encode(column.qualifierEncoded.v)))
    ELSE column

BigtableColumnFamily_from_api_repr(resource) ==
    Put(resource, "columns",
        [i \in 1..Len(resource.columns) |->
            BigtableColumn_from_api_repr(resource.columns[i])])

BigtableColumnFamily_to_api_repr(family) ==
    Put(family, "columns",
        [i \in 1..Len(family.columns) |->
            BigtableColumn_to_api_repr(family.columns[i])])

\* the options block `name` of a resource, parsed
Options_from_api_repr(name, resource) ==
    IF name = "bigtableOptions"
    THEN [name |-> name,
          properties |->
              Put(resource, "columnFamilies",
                  [i \in 1..Len(resource.columnFamilies) |->
                      BigtableColumnFamily_from_api_repr(
                          resource.columnFamilies[i])])]
    ELSE [name |-> name,
          properties |->
              IF "skipLeadingRows" \in DOMAIN resource
              THEN Put(resource, "skipLeadingRows",
                       PyIntOf(resource.skipLeadingRows))
              ELSE resource]

\* options written back with skip_leading_rows left an int
Options_to_api_repr_int(options) ==
    IF options.name = "bigtableOptions"
    THEN Put(options.properties, "columnFamilies",
             [i \in 1..Len(options.properties.columnFamilies) |->
                 BigtableColumnFamily_to_api_repr(
                     options.properties.columnFamilies[i])])
    ELSE options.properties

\* the options written back
Options_to_api_repr(options) ==
    IF options.name = "bigtableOptions"
    THEN Put(options.properties, "columnFamilies",
             [i \in 1..Len(options.properties.columnFamilies) |->
                 BigtableColumnFamily_to_api_repr(
                     options.properties.columnFamilies[i])])
    ELSE IF "skipLeadingRows" \in DOMAIN options.properties
    THEN Put(options.properties, "skipLeadingRows",
             NumStr(DigitsOf(options.properties.skipLeadingRows.v)))
    ELSE options.properties

OptionsNames == {"bigtableOptions", "csvOptions", "googleSheetsOptions"}

\* ExternalConfig.from_api_repr(resource)
ExternalConfig_from_api_repr(resource) ==
    LET names == OptionsNames \cap DOMAIN resource
    IN [properties |-> resource,
        schema |-> IF "schema" \in DOMAIN resource
                   THEN _parse_schema_resource(resource.schema)
                   ELSE None,
        options |-> IF names = {} THEN None
                    ELSE LET name == CHOOSE n \in names : TRUE
                         IN Options_from_api_repr(name, resource[name])]

\* ec.to_api_repr()
ExternalConfig_to_api_repr(ec) ==
    LET c1 == IF ec.schema # None /\ ec.schema.v # <<>>
              THEN Put(ec.properties, "schema",
                       [fields |-> _build_schema_resource(ec.schema.v)])
              ELSE ec.properties
    IN IF ec.options # None
       THEN Put(c1, ec.options.name, Options_to_api_repr(ec.options))
       ELSE c1

(***************************************************************************)
(* SpecExternal: external configurations are parsed from resources and     *)
(* written back.                                                           *)
(***************************************************************************)
BaseResource ==
    [sourceUris |-> List(<<Str("gs://foo"), Str("gs://bar")>>),
     sourceFormat |-> Str("sourceFormat"), maxBadRecords |-> PyInt(17),
     autodetect |-> PyBool(TRUE), ignoreUnknownValues |-> PyBool(FALSE),
     compression |-> Str("compression")]

\* skipLeadingRows absent, or a number as the service writes it
SkipLeadingRows ==
    Opt("skipLeadingRows", {NumStr(<<0>>), NumStr(<<7>>),
                            NumStr(<<1, 2, 3>>)})

\* the columns of a family: named by a string, or by bytes in base64
BigtableColumns ==
    {[qualifierString |-> Str("q"), fieldName |-> Str("fieldName1")]}
    \cup {[qualifierEncoded |-> Chars(b64encode(qualifier)),
           fieldName |-> Str("fieldName2")] :
             qualifier \in {<<113>>, <<104, 105>>, <<0, 255, 16>>,
                            <<251, 239, 190, 7>>}}

OptionsBlocks ==
    {[googleSheetsOptions |-> s] : s \in SkipLeadingRows}
    \cup {[csvOptions |-> [fieldDelimiter |-> Str(","),
                         allowJaggedRows |-> PyBool(FALSE)] @@ s] :
             s \in SkipLeadingRows}
    \cup {[bigtableOptions |->
              [readRowkeyAsString |-> PyBool(FALSE),
               columnFamilies |-> <<[familyId |-> Str("familyId"),
                                     columns |-> columns]>>]] :
             columns \in SeqsUpTo(BigtableColumns, 2)}

ExternalResources ==
    {BaseResource @@ s : s \in Opt("schema", SchemaInfos)}
    \cup {BaseResource @@ o : o \in OptionsBlocks}

\* ExternalConfig.from_api_repr(resource)
ExternalConfigFromApiRepr ==
    /\ Idle
    /\ \E resource \in ExternalResources :
          call' = [op |-> "ExternalConfig.from_api_repr",
                   resource |-> resource,
                   result |-> ExternalConfig_from_api_repr(resource)]
    /\ UNCHANGED <<table, dataset, requests>>

\* to_api_repr() of the configuration just parsed
ExternalConfigToApiRepr ==
    /\ call.op = "ExternalConfig.from_api_repr"
    /\ call' = [op |-> "ExternalConfig.to_api_repr",
                resource |-> call.resource, self |-> call.result,
                result |-> ExternalConfig_to_api_repr(call.result)]
    /\ UNCHANGED <<table, dataset, requests>>

NextExternal ==
    \/ ExternalConfigFromApiRepr
    \/ ExternalConfigToApiRepr
    \/ Return

SpecExternal == Init /\ [][NextExternal]_vars

(***************************************************************************)
(* Claims on the schema codec.                                             *)
(***************************************************************************)
\* every field object names its mode and no "fields" list is empty
RECURSIVE Explicit(_)
Explicit(infos) ==
    \A i \in 1..Len(infos) :
        /\ "mode" \in DOMAIN infos[i]
        /\ "fields" \in DOMAIN infos[i] =>
              /\ infos[i].fields # <<>>
              /\ Explicit(infos[i].fields)

\* the field list with "mode": "NULLABLE" where it is absent and without
\* the empty "fields" lists
RECURSIVE Normalised(_)
Normalised(infos) ==
    [i \in 1..Len(infos) |->
        LET r == infos[i]
            kept == {k \in DOMAIN r :
                        k # "fields" \/ r.fields # <<>>} \cup {"mode"}
        IN [k \in kept |->
               IF k = "fields" THEN Normalised(r.fields)
               ELSE IF k = "mode" /\ "mode" \notin DOMAIN r THEN "NULLABLE"
               ELSE r[k]]]

\* some field of the list holds a RECORD that holds a RECORD with children
TwoLevels(infos) ==
    \E i \in 1..Len(infos) :
        /\ "fields" \in DOMAIN infos[i]
        /\ \E j \in 1..Len(infos[i].fields) :
              /\ "fields" \in DOMAIN infos[i].fields[j]
              /\ infos[i].fields[j].fields # <<>>

Encoded == call.op = "_build_schema_resource" /\ "fields" \in DOMAIN call.info

\* C1 as claimed: encoding the decoded schema yields exactly the field list
\* of x, for every canonical schema resource x.
C1_RoundTrip == Encoded => call.result = call.info.fields

\* C1 as amended: encoding the decoded schema yields the field list of x
\* with "mode": "NULLABLE" added where x omits the mode and with empty
\* "fields" lists dropped; it is exactly the field list of x when every
\* field object of x names its mode and no "fields" list is empty.
C1_RoundTripNormalised ==
    Encoded =>
        /\ call.result = Normalised(call.info.fields)
        /\ Explicit(call.info.fields) => call.result = call.info.fields

C1_Witness ==
    /\ Encoded
    /\ Explicit(call.info.fields)
    /\ TwoLevels(call.info.fields)
    /\ Len(call.info.fields) = 2
    /\ call.result = call.info.fields

\* C2: decoding a schema without a "fields" key yields an empty sequence,
\* and what is stored differs from what is stored for an empty "fields"
\* list: the children of sibling fields held by their SchemaFields, and the
\* schema a Table holds after two successive refreshes.
C2_NoFieldsDistinct ==
    [][/\ (call'.op = "_parse_schema_resource"
              /\ "fields" \notin DOMAIN call'.info)
          => call'.result.v = <<>>
       /\ (call'.op = "_parse_schema_resource"
              /\ "fields" \in DOMAIN call'.info)
          => \A i, j \in 1..Len(call'.info.fields) :
                (/\ "fields" \notin DOMAIN call'.info.fields[i]
                 /\ "fields" \in DOMAIN call'.info.fields[j]
                 /\ call'.info.fields[j].fields = <<>>)
                => call'.result.v[i].fields # call'.result.v[j].fields
       /\ (/\ call.op = "Table._set_properties"
           /\ call'.op = "Table._set_properties"
           /\ "schema" \in DOMAIN call.api_response
           /\ "schema" \in DOMAIN call'.api_response
           /\ "fields" \notin DOMAIN call.api_response.schema
           /\ "fields" \in DOMAIN call'.api_response.schema
           /\ call'.api_response.schema.fields = <<>>)
          => table'.schema # table.schema]_vars

\* infos is the decoding of fields: one SchemaField per entry, in order
RECURSIVE Decodes(_, _)
Decodes(infos, fields) ==
    /\ Len(fields) = Len(infos)
    /\ \A i \in 1..Len(infos) :
          /\ fields[i].name = infos[i].name
          /\ fields[i].field_type = infos[i].type
          /\ "mode" \in DOMAIN infos[i] => fields[i].mode = infos[i].mode
          /\ "mode" \notin DOMAIN infos[i] => fields[i].mode = "NULLABLE"
          /\ "description" \in DOMAIN infos[i]
                => fields[i].description = infos[i].description
          /\ "description" \notin DOMAIN infos[i]
                => fields[i].description = None
          /\ "fields" \notin DOMAIN infos[i] => fields[i].fields = <<>>
          /\ "fields" \in DOMAIN infos[i]
                => Decodes(infos[i].fields, fields[i].fields)

Decoded == call.op = "_parse_schema_resource" /\ "fields" \in DOMAIN call.info

\* C3: _parse_schema_resource returns one SchemaField per entry of
\* "fields", in order, at every level: no "fields" key gives no children, a
\* "fields" key gives the decoded children, an absent mode is NULLABLE and
\* an absent description is None.
C3_ParseStructure == Decoded => Decodes(call.info.fields, call.result.v)

C3_Witness ==
    /\ Decoded
    /\ TwoLevels(call.info.fields)
    /\ Len(call.info.fields) = 2
    /\ "mode" \notin DOMAIN call.info.fields[1]
    /\ "description" \notin DOMAIN call.info.fields[2]
    /\ call.result.v[1].mode = "NULLABLE"
    /\ call.result.v[1].fields[1].fields # <<>>

\* infos is the encoding of fields, with "fields" emitted for the fields
\* that nested(field) selects
RECURSIVE Encodes(_, _, _)
Encodes(fields, infos, byType) ==
    /\ Len(infos) = Len(fields)
    /\ \A i \in 1..Len(fields) :
          LET nested == IF byType THEN fields[i].field_type = "RECORD"
                        ELSE fields[i].fields # <<>>
          IN /\ DOMAIN infos[i] =
                   {"name", "type", "mode"}
                   \cup (IF fields[i].description # None
                         THEN {"description"} ELSE {})
                   \cup (IF nested THEN {"fields"} ELSE {})
             /\ infos[i].name = fields[i].name
             /\ infos[i].type = fields[i].field_type
             /\ infos[i].mode = fields[i].mode
             /\ fields[i].description # None
                   => infos[i].description = fields[i].description
             /\ nested => Encodes(fields[i].fields, infos[i].fields, byType)

\* C4 as claimed: one object per field, in order, with name, type and
\* mode, "description" iff it is not None, and "fields" (the encoded
\* children) iff the field is a RECORD.
C4_BuildByType ==
    call.op = "_build_schema_resource"
        => Encodes(call.fields, call.result, TRUE)

\* C4 as amended: the same, with "fields" iff the field has at least one
\* child, whatever its type.
C4_BuildByChildren ==
    call.op = "_build_schema_resource"
        => Encodes(call.fields, call.result, FALSE)

C4_Witness ==
    /\ call.op = "_build_schema_resource"
    /\ Len(call.fields) = 2
    /\ call.fields[1].field_type = "RECORD"
    /\ call.fields[1].fields # <<>>
    /\ call.fields[1].fields[1].fields # <<>>
    /\ call.fields[2].description # None
    /\ "fields" \in DOMAIN call.result[1].fields[1]
    /\ "description" \in DOMAIN call.result[2]

(***************************************************************************)
(* Claims on Client.update_dataset and Table._build_resource.              *)
(***************************************************************************)
\* the characters of a key as one string
RECURSIVE Text(_)
Text(key) == IF key = <<>> THEN "" ELSE Head(key) \o Text(Tail(key))

\* the wire keys of the names the calls list, as the service documents them
WireName(f) ==
    CASE f = n_friendly_name -> "friendlyName"
      [] f = n_default_table_expiration_ms -> "defaultTableExpirationMs"
      [] f = n_description -> "description"
      [] f = n_etag -> "etag"
      [] f = n__project -> "Project"

Listed(fields) == {fields[i] : i \in 1..Len(fields)}

\* update_dataset has called api_request
Sent == call.op = "Client.update_dataset" /\ requests # <<>>

\* C5: the PATCH body of Client.update_dataset has exactly one key per
\* listed name, the camelCase wire key of that name, mapped to the value
\* the dataset holds for that property, None when it holds none; it has no
\* key for an unlisted property, modified or not.
C5_PatchBody ==
    Sent =>
        LET body == requests[1].data
        IN /\ {Text(k) : k \in DOMAIN body}
                 = {WireName(f) : f \in Listed(call.fields)}
           /\ Cardinality(DOMAIN body) = Cardinality(Listed(call.fields))
           /\ \A k \in DOMAIN body :
                 Text(k) # "Project"
                    => body[k] = Get(dataset.properties, Text(k), None)

C5_Witness ==
    /\ Sent
    /\ call.fields = <<n_friendly_name, n_default_table_expiration_ms>>
    /\ Get(dataset.properties, "description", None) = Str("x")
    /\ \E k1, k2 \in DOMAIN requests[1].data :
          /\ Text(k1) = "friendlyName"
          /\ Text(k2) = "defaultTableExpirationMs"
          /\ requests[1].data = (k1 :> Str("x") @@ k2 :> PyInt(5000))

\* C6: Client.update_dataset raises for every listed name that is not a
\* property of Dataset, and Table._build_resource returns no resource for
\* a filter field that is not a property of Table.
C6_UnknownFieldRaises ==
    /\ (/\ call.op = "Client.update_dataset"
        /\ Listed(call.fields) \ DatasetProperties # {})
       => call.raised = "ValueError"
    /\ (/\ call.op = "Table._build_resource"
        /\ Listed(call.filter_fields) \ TableProperties # {})
       => call.result.raised # ""

\* C7: one call of Client.update_dataset calls api_request at most once:
\* exactly once, a PATCH with a key for every listed name, when every
\* listed name is a property of Dataset, and not at all when some listed
\* name is not, wherever it stands; a failing request raises and is not
\* sent again.
C7_AtMostOneRequest ==
    call.op = "Client.update_dataset" =>
        /\ Len(requests) <= 1
        /\ Listed(call.fields) \subseteq DatasetProperties
              => /\ Len(requests) = 1
                 /\ requests[1].method = "PATCH"
                 /\ Cardinality(DOMAIN requests[1].data)
                       = Cardinality(Listed(call.fields))
        /\ Listed(call.fields) \ DatasetProperties # {} => requests = <<>>
        /\ (call.reply = "error" /\ requests # <<>>)
              => call.raised = "ServiceError"

\* the camelCase key of a name read in one pass from character i on: the
\* underscores dropped, the words after the first underscore with their
\* first character in upper case and the others in lower case
RECURSIVE CamelFrom(_, _, _, _)
CamelFrom(name, i, later, start) ==
    IF i > Len(name) THEN <<>>
    ELSE IF name[i] = "_" THEN CamelFrom(name, i + 1, TRUE, TRUE)
    ELSE <<IF ~ later THEN name[i]
           ELSE IF start THEN ToUpper(name[i])
           ELSE ToLower(name[i])>>
         \o CamelFrom(name, i + 1, later, FALSE)

\* C8: the wire key of a name is the name split on "_", the first word as
\* it is, each later word capitalized, the words concatenated
\* (friendly_name gives friendlyName); Client.update_dataset and
\* Table._build_resource compute the same key for the same name.
C8_CamelCase ==
    call.op = "api_field" =>
        /\ call.client = CamelFrom(call.f, 1, FALSE, FALSE)
        /\ call.table = call.client
        /\ Client_api_field(n_friendly_name) = Table_api_field(n_friendly_name)
        /\ Text(Client_api_field(n_friendly_name)) = "friendlyName"

C8_Witness ==
    /\ call.op = "api_field"
    /\ call.f = <<"a", "_", "a", "B">>
    /\ call.client = <<"a", "A", "b">>
    /\ call.table = <<"a", "A", "b">>

\* C9: the PATCH of Client.update_dataset carries the header If-Match with
\* the etag of the dataset if and only if that etag is not None; otherwise
\* it carries no header.
C9_IfMatch ==
    Sent =>
        /\ Get(dataset.properties, "etag", None) # None
              => requests[1].headers
                    = [If_Match |-> dataset.properties["etag"]]
        /\ Get(dataset.properties, "etag", None) = None
              => requests[1].headers = None

C9_Witness ==
    /\ Sent
    /\ "etag" \in DOMAIN dataset.properties
    /\ requests[1].headers = [If_Match |-> Str("abc")]

(***************************************************************************)
(* Claims on Table.row_from_mapping.                                       *)
(***************************************************************************)
KnownModes == {"REQUIRED", "NULLABLE", "REPEATED"}

\* row_from_mapping has run on a schema that is set and has known modes
Projected ==
    /\ call.op = "Table.row_from_mapping"
    /\ table.schema # <<>>
    /\ \A i \in 1..Len(table.schema) : table.schema[i].mode \in KnownModes

MissingRequired ==
    \E i \in 1..Len(table.schema) :
        /\ table.schema[i].mode = "REQUIRED"
        /\ table.schema[i].name \notin DOMAIN call.mapping

\* C10: on a schema that is set and has known modes, Table.row_from_mapping
\* returns a tuple with one element per field in schema order: the mapped
\* value when the name of the field is in the mapping, () for an absent
\* REPEATED field, None for an absent NULLABLE field; it raises KeyError
\* when a REQUIRED field is absent; keys that name no field change nothing.
C10_RowFromMapping ==
    Projected =>
        /\ MissingRequired => call.result.raised = "KeyError"
        /\ ~ MissingRequired =>
              /\ call.result.raised = ""
              /\ Len(call.result.row.v) = Len(table.schema)
              /\ \A i \in 1..Len(table.schema) :
                    LET field == table.schema[i]
                        value == call.result.row.v[i]
                    IN IF field.name \in DOMAIN call.mapping
                       THEN value = call.mapping[field.name]
                       ELSE IF field.mode = "REPEATED"
                       THEN value = Tuple(<<>>)
                       ELSE value = None
              /\ call.result
                    = Table_row_from_mapping(table,
                          [k \in DOMAIN call.mapping \ {"z"}
                              |-> call.mapping[k]])

C10_Witness ==
    /\ Projected
    /\ Len(table.schema) = 3
    /\ table.schema[1].name = "a" /\ table.schema[1].mode = "REQUIRED"
    /\ table.schema[2].name = "b" /\ table.schema[2].mode = "REPEATED"
    /\ table.schema[3].name = "c" /\ table.schema[3].mode = "NULLABLE"
    /\ call.mapping = [a |-> PyInt(1), z |-> PyInt(1)]
    /\ call.result.row = Tuple(<<PyInt(1), Tuple(<<>>), None>>)

\* row_from_mapping has run on a schema with a field of unknown mode
UnknownMode ==
    /\ call.op = "Table.row_from_mapping"
    /\ \E i \in 1..Len(table.schema) : table.schema[i].mode \notin KnownModes

\* the place of the first field of unknown mode
FirstUnknown ==
    CHOOSE i \in 1..Len(table.schema) :
        /\ table.schema[i].mode \notin KnownModes
        /\ \A j \in 1..(i - 1) : table.schema[j].mode \in KnownModes

\* a REQUIRED field standing before the first field of unknown mode is
\* absent from the mapping
MissingRequiredBefore ==
    \E j \in 1..(FirstUnknown - 1) :
        /\ table.schema[j].mode = "REQUIRED"
        /\ table.schema[j].name \notin DOMAIN call.mapping

\* C11 as claimed: on a schema with a field whose mode is outside REQUIRED,
\* NULLABLE, REPEATED, Table.row_from_mapping raises the unknown-mode
\* ValueError, whatever the mapping and wherever the field stands.
C11_UnknownModeRaises == UnknownMode => call.result.raised = "ValueError"

\* C11 as amended: on such a schema Table.row_from_mapping never returns a
\* row; it raises the unknown-mode ValueError unless a REQUIRED field that
\* stands before the first field of unknown mode is absent from the
\* mapping, in which case it raises KeyError.
C11_UnknownModeOrMissing ==
    UnknownMode =>
        /\ call.result.raised # ""
        /\ MissingRequiredBefore => call.result.raised = "KeyError"
        /\ ~ MissingRequiredBefore => call.result.raised = "ValueError"

C11_Witness ==
    /\ UnknownMode
    /\ Len(table.schema) = 3
    /\ table.schema[1].mode = "REQUIRED"
    /\ table.schema[2].mode = "NULLABLE"
    /\ table.schema[3].mode = "BOGUS"
    /\ DOMAIN call.mapping = {"a", "c", "z"}
    /\ call.result.raised = "ValueError"

(***************************************************************************)
(* Claims on Table.insert_data.                                            *)
(***************************************************************************)
\* insert_data has run on a schema that is set
Inserting == call.op = "Table.insert_data" /\ table.schema # <<>>

\* insert_data has called api_request
Posted == Inserting /\ requests # <<>>

\* C12: Table.insert_data raises when the arity of a row differs from the
\* arity of the schema, and builds no request body from such a row.
C12_ArityMismatchRaises ==
    (/\ Inserting
     /\ \E k \in 1..Len(call.rows) : Len(call.rows[k]) # Len(table.schema))
    => /\ call.result.raised # ""
       /\ requests = <<>>

\* the base64 text of the byte strings the rows hold
Base64Text(bytes) ==
    CASE bytes = <<113>> -> "cQ=="
      [] bytes = <<104, 105>> -> "aGk="

\* json maps the name of the i-th field to the i-th value of row, converted
\* when the type of the field has a converter, for every i that both the
\* schema and the row have
Pairs(schema, row, json) ==
    /\ DOMAIN json = {schema[i].name : i \in 1..Min(Len(schema), Len(row))}
    /\ \A i \in 1..Min(Len(schema), Len(row)) :
          LET field == schema[i]
              value == json[field.name]
          IN IF field.field_type = "BYTES" /\ row[i].t = "bytes"
             THEN /\ value.t = "str"
                  /\ Text(value.chars) = Base64Text(row[i].v)
             ELSE value = row[i]

\* C13: the JSON object of a row maps the name of the i-th field of the
\* schema to the i-th value of the row: converted by the converter of the
\* type of the field when it has one (the BYTES value b"q" becomes "cQ=="),
\* unchanged otherwise.
C13_RowEncoding ==
    Posted =>
        \A k \in 1..Len(call.rows) :
            Pairs(table.schema, call.rows[k], requests[1].data.rows[k].json)

C13_Witness ==
    /\ Posted
    /\ Len(table.schema) = 3
    /\ call.rows = <<<<Str("s"), PyInt(1), Bytes(<<113>>)>>>>
    /\ requests[1].data.rows[1].json
          = [s |-> Str("s"), a |-> PyInt(1),
             b |-> Chars(<<"c", "Q", "=", "=">>)]

\* key is in the body with the value of the argument iff it is not None
OptionKey(data, key, value) ==
    /\ key \in DOMAIN data <=> value # None
    /\ value # None => data[key] = value

\* C14: the body of the insertAll request has one entry under "rows" per
\* row, in the order of the rows, each with a "json" object and with
\* "insertId" equal to row_ids[i] iff row_ids was given; skipInvalidRows,
\* ignoreUnknownValues and templateSuffix are present iff their argument is
\* not None; the request is one POST to <table path>/insertAll.
C14_InsertAllBody ==
    Posted =>
        LET data == requests[1].data
        IN /\ Len(requests) = 1
           /\ requests[1].method = "POST"
           /\ requests[1].path
                 = <<"projects", "p", "datasets", "d", "tables", "t",
                     "insertAll">>
           /\ DOMAIN data \subseteq
                 {"rows", "skipInvalidRows", "ignoreUnknownValues",
                  "templateSuffix"}
           /\ OptionKey(data, "skipInvalidRows", call.skip_invalid_rows)
           /\ OptionKey(data, "ignoreUnknownValues",
                        call.ignore_unknown_values)
           /\ OptionKey(data, "templateSuffix", call.template_suffix)
           /\ Len(data.rows) = Len(call.rows)
           /\ \A k \in 1..Len(call.rows) :
                 /\ DOMAIN data.rows[k]
                       = IF call.row_ids # None THEN {"json", "insertId"}
                         ELSE {"json"}
                 /\ call.row_ids # None
                       => data.rows[k].insertId = call.row_ids.v[k]
                 /\ Pairs(table.schema, call.rows[k], data.rows[k].json)

C14_Witness ==
    /\ Posted
    /\ Len(table.schema) = 2
    /\ Len(call.rows) = 2
    /\ Len(call.rows[1]) = 2 /\ Len(call.rows[2]) = 2
    /\ call.rows[1] # call.rows[2]
    /\ call.row_ids = List(<<RowId(1), RowId(2)>>)
    /\ call.skip_invalid_rows = PyBool(TRUE)
    /\ call.template_suffix = None
    /\ DOMAIN requests[1].data = {"rows", "skipInvalidRows"}
    /\ requests[1].data.rows[2].insertId = RowId(2)

\* C15: on a table whose schema is empty, Table.row_from_mapping and
\* Table.insert_data raise ValueError, and insert_data sends no request.
C15_NoSchemaRaises ==
    table.schema = <<>> =>
        /\ call.op = "Table.row_from_mapping"
              => call.result.raised = "ValueError"
        /\ call.op = "Table.insert_data"
              => /\ call.result.raised = "ValueError"
                 /\ requests = <<>>

C15_Witness ==
    /\ table.schema = <<>>
    /\ call.op = "Table.insert_data"
    /\ Len(call.rows) = 2
    /\ call.client # None
    /\ call.reply # ServiceError
    /\ call.result.raised = "ValueError"
    /\ requests = <<>>

(***************************************************************************)
(* Claims on _set_properties, the references and AccessEntry.              *)
(***************************************************************************)
\* the keys whose values _set_properties converts
ConvertedKeys ==
    {"creationTime", "lastModifiedTime", "expirationTime",
     "defaultTableExpirationMs"}

\* properties holds the keys of the response r but `dropped`, each with
\* the value r gives it
DerivedFrom(properties, r, dropped) ==
    /\ DOMAIN properties = DOMAIN r \ {dropped}
    /\ \A k \in DOMAIN properties \ ConvertedKeys : properties[k] = r[k]
    /\ \A k \in DOMAIN properties \cap ConvertedKeys :
          properties[k].v = DigitsValue(r[k].digits)

\* C16: right after a successful _set_properties(r) on a Dataset or a
\* Table, whatever was fetched or set before, the state is the one derived
\* from r alone: the properties are those of r, the access entries of the
\* Dataset are those of r["access"], the schema of the Table is the
\* decoding of r["schema"]; it is the state a new object has after
\* _set_properties(r).
C16_PropertiesReplaced ==
    /\ (call.op = "Dataset._set_properties" /\ call.raised = "")
       => LET r == call.api_response
              access == Get(r, "access", <<>>)
          IN /\ DerivedFrom(dataset.properties, r, "access")
             /\ Len(dataset.access_entries) = Len(access)
             /\ \A i \in 1..Len(access) :
                   dataset.access_entries[i].role = access[i].role
             /\ dataset = Dataset_set_properties(NewDataset("d", "p"),
                                                 r).dataset
    /\ call.op = "Table._set_properties"
       => LET r == call.api_response
          IN /\ DerivedFrom(table.properties, r, "schema")
             /\ "schema" \notin DOMAIN r => table.schema = <<>>
             /\ "schema" \in DOMAIN r
                   => table.schema = _parse_schema_resource(r.schema).v
             /\ table = Table_set_properties(NewTable, r)

\* a Table that held a schema, an etag and a name set locally, right after
\* a refresh from a resource with neither
C16_Witness ==
    /\ call.op = "Table._set_properties"
    /\ call.before.schema # <<>>
    /\ Get(call.before.properties, "etag", None) = Str("abc")
    /\ Get(call.before.properties, "friendlyName", None) = Str("x")
    /\ DOMAIN call.api_response = {"creationTime"}
    /\ table.properties = [creationTime |-> PyFloat(NumStr(<<1, 2>>))]
    /\ table.schema = <<>>

\* the project, dataset and table ids a reference was built from
Components(ref) ==
    IF ref.cls = "TableReference" THEN TableReference_key(ref)
    ELSE <<ref._project, ref._dataset_id>>

\* C17: two references of one class built from the same ids are equal and
\* have equal hashes, and two that differ in a component are unequal.
C17_ValueEquality ==
    (call.op = "==" /\ call.a.cls = call.b.cls)
    => /\ Components(call.a) = Components(call.b)
          => (call.eq /\ ~ call.ne /\ call.hash_a = call.hash_b)
       /\ Components(call.a) # Components(call.b)
          => (~ call.eq /\ call.ne)

\* C18: to_api_repr returns exactly the keys projectId, datasetId and
\* tableId with the components of the reference, from_api_repr of it is a
\* reference equal to the first one, and to_api_repr of the reference built
\* from a resource of these three keys is that resource.
C18_WireForm ==
    /\ call.op = "TableReference.to_api_repr"
       => LET back == TableReference_from_api_repr(3, call.result)
          IN /\ DOMAIN call.result = {"projectId", "datasetId", "tableId"}
             /\ call.result.projectId = call.self._project
             /\ call.result.datasetId = call.self._dataset_id
             /\ call.result.tableId = call.self._table_id
             /\ back.raised = ""
             /\ PyEq(back.result, call.self)
             /\ ~ TableReference_ne(back.result, call.self)
    /\ (/\ call.op = "TableReference.from_api_repr"
        /\ DOMAIN call.resource = {"projectId", "datasetId", "tableId"})
       => /\ call.raised = ""
          /\ TableReference_to_api_repr(call.result) = call.resource

\* the wire form of the reference to table u of dataset e of project p
C18_Witness ==
    /\ call.op = "TableReference.to_api_repr"
    /\ TableReference_key(call.self) = <<"p", "e", "u">>
    /\ call.result = [projectId |-> "p", datasetId |-> "e", tableId |-> "u"]
    /\ TableReference_from_api_repr(3, call.result).result.id # call.self.id

\* an entry of an allowed type whose role is None exactly when it is a view
WellFormedEntry(entry) ==
    /\ entry.entity_type \in ENTITY_TYPES
    /\ entry.role = None <=> entry.entity_type = "view"

\* C19: AccessEntry(role, entity_type, entity_id) raises ValueError when
\* the type is not among ENTITY_TYPES, when a view is given a role and when
\* another type is given none; an entry that was constructed, by the caller
\* or while the access list of a Dataset was parsed, has an allowed type
\* and has no role exactly when it is a view.
C19_AccessEntryChecked ==
    /\ call.op = "AccessEntry"
       => /\ call.entity_type \notin ENTITY_TYPES
             => call.result.raised = "ValueError"
          /\ (call.entity_type = "view" /\ call.role # None)
             => call.result.raised = "ValueError"
          /\ (call.entity_type # "view" /\ call.role = None)
             => call.result.raised = "ValueError"
          /\ call.result.raised = "" => WellFormedEntry(call.result.entry)
    /\ \A i \in 1..Len(dataset.access_entries) :
          WellFormedEntry(dataset.access_entries[i])

\* a view constructed without a role, the Dataset holding an entry with one
C19_Witness ==
    /\ call.op = "AccessEntry"
    /\ call.entity_type = "view"
    /\ call.role = None
    /\ call.result.raised = ""
    /\ call.result.entry.role = None
    /\ dataset.access_entries # <<>>

(***************************************************************************)
(* Claims on the Dataset the client returns.                               *)
(***************************************************************************)
\* the resources Dataset.from_api_repr(resource, client) parses
Parsed(resource) ==
    Dataset_from_api_repr(<<resource, TheClient>>).raised = ""

\* C20: when the request of get_dataset, create_dataset or update_dataset
\* succeeds, the call returns a Dataset parsed from the response body: its
\* dataset_id and its properties are those of the response.
C20_ReturnsDataset ==
    /\ (/\ call.op \in {"Client.get_dataset", "Client.create_dataset"}
        /\ call.reply # ServiceError
        /\ Parsed(call.reply.v))
       => /\ call.done.raised = ""
          /\ call.done.result.dataset_id
                = call.reply.v.datasetReference.datasetId
          /\ DerivedFrom(call.done.result.properties, call.reply.v, "access")
    /\ (/\ call.op = "Client.update_dataset"
        /\ call.reply = "ok"
        /\ requests # <<>>)
       => call.raised = ""

(***************************************************************************)
(* Claims on the tables the client creates and on the resource of a Table. *)
(***************************************************************************)
\* C21: create_table(table) sends one POST to
\* /projects/<project>/datasets/<dataset_id>/tables whose body is the
\* resource of the table, and returns the Table parsed from the response.
C21_CreateTable ==
    (/\ call.op = "Client.create_table"
     /\ call.reply # ServiceError
     /\ Table_from_api_repr(call.reply.v, TheClient).raised = "")
    => /\ Len(requests) = 1
       /\ requests[1].method = "POST"
       /\ requests[1].path = <<"projects", table.project, "datasets",
                               table.dataset_id, "tables">>
       /\ call.done.raised = ""
       /\ call.done.result = Table_from_api_repr(call.reply.v,
                                                 TheClient).result

\* how many times the name x stands in the list f
Count(f, x) == Cardinality({i \in 1..Len(f) : f[i] = x})

\* the orderings of the names of the list f
Orderings(f) ==
    {g \in [1..Len(f) -> {f[i] : i \in 1..Len(f)}] :
        \A i \in 1..Len(f) : Count(g, f[i]) = Count(f, f[i])}

\* C27: _build_resource depends on the set of filter fields only: for every
\* ordering of the names it was given, it returns an equal resource, or it
\* fails for every ordering.
C27_OrderIndependent ==
    call.op = "Table._build_resource"
    => \A g \in Orderings(call.filter_fields) :
          LET other == Table_build_resource(table, g)
          IN IF call.result.raised = ""
             THEN other.raised = "" /\ other.resource = call.result.resource
             ELSE other.raised # ""

\* C28: whatever partitioning_type and partition_expiration were assigned
\* before, assigning None to partition_expiration does not raise, and
\* partition_expiration reads None afterwards.
C28_ClearExpiration ==
    (call.op = "Table.partition_expiration" /\ call.value = None)
    => /\ call.raised = ""
       /\ Table_getattr(table, n_partition_expiration) = None

(***************************************************************************)
(* Claims on Client.job_from_resource.                                     *)
(***************************************************************************)
\* the kinds of job, in the order job_from_resource tests them
JobKinds == <<"load", "copy", "extract", "query">>

JobClasses == <<"LoadJob", "CopyJob", "ExtractJob", "QueryJob">>

\* the kinds whose key is in the configuration
KindsIn(config) == {k \in 1..Len(JobKinds) : In(JobKinds[k], config)}

\* C22: job_from_resource builds a LoadJob, a CopyJob, an ExtractJob or a
\* QueryJob from a resource whose configuration holds the key load, copy,
\* extract or query, and raises ValueError when the configuration holds
\* none of these keys.
C22_JobByKind ==
    (call.op = "Client.job_from_resource"
     /\ "configuration" \in DOMAIN call.resource)
    => LET kinds == KindsIn(call.resource.configuration)
       IN /\ \A k \in 1..Len(JobKinds) :
                kinds = {k}
                => /\ call.done.raised = ""
                   /\ call.done.job.cls = JobClasses[k]
                   /\ call.done.job.resource = call.resource
          /\ kinds = {} => call.done.raised = "ValueError"

\* a CopyJob built from a configuration that holds copy after another key
C22_Witness ==
    /\ call.op = "Client.job_from_resource"
    /\ "configuration" \in DOMAIN call.resource
    /\ call.resource.configuration = <<"dryRun", "copy">>
    /\ call.done.raised = ""
    /\ call.done.job.cls = "CopyJob"

\* the least element of a non-empty set of numbers
Least(S) == CHOOSE k \in S : \A l \in S : k <= l

\* C29: when the configuration holds several of load, copy, extract and
\* query, job_from_resource builds the job of the first of them in that
\* fixed order, and builds a job of the same class from every other
\* ordering of the keys of the object.
C29_JobByKeySet ==
    (/\ call.op = "Client.job_from_resource"
     /\ "configuration" \in DOMAIN call.resource
     /\ Cardinality(KindsIn(call.resource.configuration)) > 1)
    => LET config == call.resource.configuration
       IN /\ call.done.raised = ""
          /\ call.done.job.cls = JobClasses[Least(KindsIn(config))]
          /\ \A g \in Orderings(config) :
                LET other == Client_job_from_resource(
                                 [call.resource EXCEPT !.configuration = g])
                IN other.raised = "" /\ other.job.cls = call.done.job.cls

\* a LoadJob built from a configuration whose first key is query
C29_Witness ==
    /\ call.op = "Client.job_from_resource"
    /\ "configuration" \in DOMAIN call.resource
    /\ call.resource.configuration = <<"query", "extract", "load">>
    /\ call.done.raised = ""
    /\ call.done.job.cls = "LoadJob"

(***************************************************************************)
(* SpecAccess: the `access` lists of dataset resources are parsed with     *)
(* Dataset._parse_access_entries, and access entries are built.            *)
(***************************************************************************)
\* entries of an `access` list: well formed ones, a view with a role, a
\* user without one, a role alone, two entities at once, an unknown entity
AccessResources ==
    {[role |-> Str("OWNER"), userByEmail |-> Str("u")],
     [view |-> Str("v")],
     [role |-> Str("READER"), groupByEmail |-> Str("g")],
     [role |-> Str("OWNER"), view |-> Str("v")],
     [userByEmail |-> Str("u")],
     [role |-> Str("OWNER")],
     [role |-> Str("READER"), userByEmail |-> Str("u"), domain |-> Str("w")],
     [role |-> Str("READER"), bogus |-> Str("x")]}

\* Dataset._parse_access_entries(access)
ParseAccessEntries ==
    /\ Idle
    /\ \E access \in SeqsUpTo(AccessResources, MaxLen) :
          call' = [op |-> "Dataset._parse_access_entries",
                   access |-> access,
                   done |-> Dataset_parse_access_entries(access)]
    /\ UNCHANGED <<table, dataset, requests>>

NextAccess ==
    \/ ParseAccessEntries
    \/ NewAccessEntry
    \/ Return

SpecAccess == Init /\ [][NextAccess]_vars

(***************************************************************************)
(* SpecSetters: the caller assigns to the properties of a Dataset and to   *)
(* the schema of a Table, with values of the right and of the wrong type.  *)
(***************************************************************************)
\* dataset.location = value
SetLocation ==
    /\ Idle
    /\ \E value \in {None, Str("US"), PyInt(7)} :
        \E done \in {Dataset_location_setter(dataset, value)} :
           /\ dataset' = done.dataset
           /\ call' = [op |-> "Dataset.location", value |-> value,
                       raised |-> done.raised]
    /\ UNCHANGED <<table, requests>>

\* dataset.default_table_expiration_ms = value, a bool among the values
SetExpirationMs ==
    /\ Idle
    /\ \E value \in {None, PyInt(5000), PyBool(TRUE), Str("x"),
                     PyFloat(PyInt(1))} :
        \E done \in {Dataset_default_table_expiration_ms_setter(
                         dataset, value)} :
           /\ dataset' = done.dataset
           /\ call' = [op |-> "Dataset.default_table_expiration_ms",
                       value |-> value, raised |-> done.raised]
    /\ UNCHANGED <<table, requests>>

\* lists of fields and of other things
SchemaItems ==
    LET field == SchemaField("a", "INTEGER", "REQUIRED", None, Tuple(<<>>))
    IN {None, List(<<>>), List(<<field>>), List(<<Str("x")>>),
        List(<<field, PyInt(1)>>)}

\* table.schema = value, some of the items not being fields
SetSchemaItems ==
    /\ Idle
    /\ \E value \in SchemaItems :
        \E done \in {Table_schema_setter(value)} :
           /\ table' = IF done.raised = ""
                       THEN [table EXCEPT !.schema = done.schema]
                       ELSE table
           /\ call' = [op |-> "Table.schema", value |-> value,
                       raised |-> done.raised]
    /\ UNCHANGED <<dataset, requests>>

NextSetters ==
    \/ SetAccessEntries
    \/ SetSchemaItems
    \/ SetExpirationMs
    \/ SetDescription
    \/ SetFriendlyName
    \/ SetLocation
    \/ Return

SpecSetters == Init /\ [][NextSetters]_vars

(***************************************************************************)
(* Claims on ExternalConfig.                                               *)
(***************************************************************************)
WrittenBack == call.op = "ExternalConfig.to_api_repr"

\* the options block of a resource, if it has one
BlockOf(resource) == resource[CHOOSE n \in OptionsNames \cap DOMAIN resource :
                                  TRUE]

\* skipLeadingRows is exposed as the int the text denotes, and each
\* qualifierEncoded as the bytes whose base64 encoding the text is
Exposed(resource, ec) ==
    \/ OptionsNames \cap DOMAIN resource = {} /\ ec.options = None
    \/ /\ OptionsNames \cap DOMAIN resource # {}
       /\ LET block == BlockOf(resource)
              properties == ec.options.properties
          IN /\ "skipLeadingRows" \in DOMAIN block
                => properties.skipLeadingRows
                      = PyInt(DigitsValue(block.skipLeadingRows.digits))
             /\ "skipLeadingRows" \notin DOMAIN block
                => "skipLeadingRows" \notin DOMAIN properties
             /\ "columnFamilies" \in DOMAIN block
                => \A i \in 1..Len(block.columnFamilies) :
                     \A j \in 1..Len(block.columnFamilies[i].columns) :
                        LET r == block.columnFamilies[i].columns[j]
                            column == properties.columnFamilies[i].columns[j]
                        IN "qualifierEncoded" \in DOMAIN r
                           => /\ column.qualifierEncoded.t = "bytes"
                              /\ b64encode(column.qualifierEncoded.v)
                                    = r.qualifierEncoded.chars

AccessParsed == call.op = "Dataset._parse_access_entries"

\* the keys of an entry other than `role`
EntityKeys(entry) == DOMAIN entry \ {"role"}

\* the AccessEntry an entry with one key besides `role` stands for
EntryOf(entry) ==
    LET entity_type == CHOOSE k \in EntityKeys(entry) : TRUE
    IN [role |-> Get(entry, "role", None), entity_type |-> entity_type,
        entity_id |-> entry[entity_type]]

ReturnsEntries ==
    /\ call.done.raised = ""
    /\ Len(call.done.result) = Len(call.access)
    /\ \A i \in 1..Len(call.access) :
          /\ Cardinality(EntityKeys(call.access[i])) = 1
          /\ call.done.result[i] = EntryOf(call.access[i])

\* C24 as claimed: _parse_access_entries raises ValueError when an entry
\* has more keys than `role` and one other; otherwise it returns one
\* AccessEntry per entry, in input order, made of the entry's single other
\* key, its value, and the entry's role or None.
C24_ParseAccess ==
    AccessParsed
    => IF \E i \in 1..Len(call.access) :
             Cardinality(EntityKeys(call.access[i])) > 1
       THEN call.done.raised = "ValueError"
       ELSE ReturnsEntries

\* what parsing one entry raises: KeyError when it has no key besides
\* `role`, ValueError when it has several or when its key and role are not
\* those of an AccessEntry (an unknown entity type, a view with a role,
\* another entity without one), nothing otherwise
Refused(entry) ==
    IF EntityKeys(entry) = {}
    THEN "KeyError"
    ELSE IF Cardinality(EntityKeys(entry)) > 1
    THEN "ValueError"
    ELSE LET made == EntryOf(entry)
         IN IF /\ made.entity_type \in ENTITY_TYPES
               /\ (made.entity_type = "view") = (made.role = None)
            THEN ""
            ELSE "ValueError"

\* C24 as amended: _parse_access_entries raises what the first refused
\* entry of `access` raises; when no entry is refused it returns one
\* AccessEntry per entry, in input order, made of the entry's single other
\* key, its value, and the entry's role or None.
C24_ParseAccessFirstRefused ==
    AccessParsed
    => LET refused == {i \in 1..Len(call.access) :
                          Refused(call.access[i]) # ""}
       IN IF refused # {}
          THEN call.done.raised
                  = Refused(call.access[CHOOSE i \in refused :
                                           \A j \in refused : i <= j])
          ELSE ReturnsEntries

\* a view without a role after a user with one: two entries, in that order
C24_Witness ==
    /\ AccessParsed
    /\ call.access = <<[role |-> Str("OWNER"), userByEmail |-> Str("u")],
                       [view |-> Str("v")]>>
    /\ call.done.raised = ""
    /\ call.done.result
         = <<[role |-> Str("OWNER"), entity_type |-> "userByEmail",
              entity_id |-> Str("u")],
             [role |-> None, entity_type |-> "view", entity_id |-> Str("v")]>>

(***************************************************************************)
(* Claims on the property setters.                                         *)
(***************************************************************************)
StringSetters ==
    {"Dataset.description", "Dataset.friendly_name", "Dataset.location"}

\* the value assigned by the call c is of the wrong type for its setter
WrongType(c) ==
    \/ /\ c.op = "Dataset.access_entries"
       /\ \E i \in 1..Len(c.value.v) : ~IsAccessEntry(c.value.v[i])
    \/ /\ c.op = "Table.schema"
       /\ c.value # None
       /\ \E i \in 1..Len(c.value.v) : ~IsSchemaField(c.value.v[i])
    \/ /\ c.op = "Dataset.default_table_expiration_ms"
       /\ c.value # None
       /\ c.value.t \notin {"int", "bool"}
    \/ /\ c.op \in StringSetters
       /\ c.value # None
       /\ c.value.t # "str"

\* C25: a setter given a value of the wrong type raises ValueError and
\* leaves the property bag and the access entries of the Dataset and the
\* schema of the Table as they were before the call.
C25_SetterRefuses ==
    [][WrongType(call')
       => /\ call'.raised = "ValueError"
          /\ dataset' = dataset
          /\ table' = table]_vars

\* a number refused as friendly name by a dataset that has one, has a
\* location and access entries, next to a table that has a schema
C25_Witness ==
    /\ call.op = "Dataset.friendly_name"
    /\ call.value = PyInt(7)
    /\ call.raised = "ValueError"
    /\ "friendlyName" \in DOMAIN dataset.properties
    /\ dataset.properties.friendlyName = Str("x")
    /\ "location" \in DOMAIN dataset.properties
    /\ dataset.access_entries # <<>>
    /\ table.schema # <<>>

(***************************************************************************)
(* Claims on Dataset._set_properties.                                      *)
(***************************************************************************)
\* C26: when _set_properties raises while it processes the response, the
\* properties and the access entries of the dataset are the same as before
\* the call.
C26_AllOrNothing ==
    (call.op = "Dataset._set_properties" /\ call.raised # "")
    => dataset = call.before

====
